---- MODULE Spec2Model ----
(***************************************************************************)
(* Model of the transaction proxy of src/server.js (lines 1-753): the      *)
(* POST /fetch-transactions handler, fetchWithRetry, getTokenDecimals and  *)
(* deduplicateTransactions.                                                *)
(*                                                                         *)
(* JavaScript strings that the code inspects character by character        *)
(* (decimal amounts, hex fields) are sequences of one-character strings;   *)
(* BigInt values are sequences of decimal digits 0..9 without leading      *)
(* zeros (zero is <<0>>).  Identifiers that the code only compares or      *)
(* concatenates are TLA+ strings.                                          *)
(***************************************************************************)
EXTENDS Integers, Sequences, FiniteSets, TLC

VARIABLES
    pc,                     \* position of the request handler
    req,                    \* req.body of the request being handled
    res,                    \* the HTTP response: [status, body]
    cache,                  \* response cache (NodeCache): function key -> body
    tokenDecimalsCache,     \* decimals cache: function token -> decimals
    fetchSite,              \* which fetchWithRetry call is in flight
    fetchI,                 \* loop variable i of fetchWithRetry
    fromIndex,              \* loop variable of the pagination loop
    allTransactions,        \* rows of the transaction list fetched so far
    txI,                    \* loop variable i of the processing loop
    hasAddedEGLD,           \* per-transaction flag of the processing loop
    taxRelevantTransactions,\* output rows pushed so far
    details,                \* what the detail fetch of each transaction gave
    upstreamIssued,         \* kinds of upstream requests issued so far
    written,                \* messages written to the progress stream, per sink
    sinkRaised,             \* sinks for which a reportProgress call has raised
    pageLog,                \* the page requests made, each with its answer
    detailLog,              \* the detail requests made, each with the delays before it
    cacheBefore,            \* the response cache when the request arrived
    lastCall,               \* last direct call of getTokenDecimals
    failedTokens,           \* tokens whose metadata request has failed
    dedupSrc,               \* deduplication input as first given
    dedupIn,                \* the same rows, possibly reordered
    dedupOut,               \* result of the last deduplicateTransactions call
    dedupPrev,              \* argument of the last deduplicateTransactions call
    dedupCalls,             \* number of deduplicateTransactions calls made
    retryCall,              \* a direct call of fetchWithRetry, as far as it got
    connections,            \* the progress connections opened: clientId and state
    clientProgress,         \* the registry: clientId -> connection its sender writes to
    chunkCall               \* a computation of the time windows of a date range

vars == <<pc, req, res, cache, tokenDecimalsCache, fetchSite, fetchI, fromIndex,
          allTransactions, txI, hasAddedEGLD, taxRelevantTransactions, details,
          upstreamIssued, written, sinkRaised, pageLog, detailLog, cacheBefore,
          lastCall, failedTokens,
          dedupSrc, dedupIn, dedupOut, dedupPrev, dedupCalls, retryCall,
          connections, clientProgress, chunkCall>>

handlerVars == <<pc, req, res, cache, fetchSite, fetchI, fromIndex,
                 allTransactions, txI, hasAddedEGLD, taxRelevantTransactions,
                 details, upstreamIssued, written, sinkRaised, pageLog, detailLog,
                 cacheBefore>>

dedupVars == <<dedupSrc, dedupIn, dedupOut, dedupPrev, dedupCalls>>

decimalsVars == <<lastCall, failedTokens>>

retryVars == <<retryCall>>

registryVars == <<connections, clientProgress>>

chunkVars == <<chunkCall>>

Range(s) == {s[k] : k \in 1..Len(s)}

(***************************************************************************)
(* Characters, BigInt and BigNumber                                        *)
(***************************************************************************)
HexChars == <<"0", "1", "2", "3", "4", "5", "6", "7", "8", "9",
              "a", "b", "c", "d", "e", "f">>

DigitVal(c) == (CHOOSE k \in 1..16 : HexChars[k] = c) - 1

IsDecString(s) == Len(s) > 0 /\ \A k \in 1..Len(s) : \E d \in 1..10 : HexChars[d] = s[k]

IsHexString(s) == Len(s) > 0 /\ \A k \in 1..Len(s) : \E d \in 1..16 : HexChars[d] = s[k]

RECURSIVE StripLeadingZeros(_)
StripLeadingZeros(ds) ==
    IF Len(ds) > 1 /\ ds[1] = 0 THEN StripLeadingZeros(Tail(ds)) ELSE ds

BigZero == <<0>>

\* BigInt(s) for a decimal string s; the empty string gives 0n.
BigInt(s) ==
    IF Len(s) = 0 THEN BigZero
    ELSE StripLeadingZeros([k \in 1..Len(s) |-> DigitVal(s[k])])

\* BigInt.prototype.toString()
BigToString(b) == [k \in 1..Len(b) |-> HexChars[b[k] + 1]]

BigGt(a, b) ==
    \/ Len(a) > Len(b)
    \/ /\ Len(a) = Len(b)
       /\ \E k \in 1..Len(a) : a[k] > b[k] /\ \A j \in 1..(k - 1) : a[j] = b[j]

\* digits of ds[1..k] * m + carry, most significant first
RECURSIVE MulAdd(_, _, _, _)
MulAdd(ds, m, carry, k) ==
    IF k = 0
    THEN IF carry = 0 THEN <<>>
         ELSE IF carry < 10 THEN <<carry>> ELSE <<carry \div 10, carry % 10>>
    ELSE LET v == ds[k] * m + carry
         IN  Append(MulAdd(ds, m, v \div 10, k - 1), v % 10)

RECURSIVE HexDigitsToBig(_, _)
HexDigitsToBig(h, k) ==
    IF k = 0 THEN BigZero
    ELSE LET hi == HexDigitsToBig(h, k - 1)
         IN  StripLeadingZeros(MulAdd(hi, 16, DigitVal(h[k]), Len(hi)))

RECURSIVE StripTrailingZeroChars(_)
StripTrailingZeroChars(s) ==
    IF Len(s) > 0 /\ s[Len(s)] = "0"
    THEN StripTrailingZeroChars(SubSeq(s, 1, Len(s) - 1))
    ELSE s

Zeros(n) == [k \in 1..n |-> 0]

\* the same division printed with toFixed(decimals)
FormatAmountFixed(b, decimals) ==
    LET padded == IF Len(b) <= decimals THEN Zeros(decimals + 1 - Len(b)) \o b ELSE b
        intPart == SubSeq(padded, 1, Len(padded) - decimals)
        fracPart == BigToString(SubSeq(padded, Len(padded) - decimals + 1, Len(padded)))
    IN  IF decimals = 0 THEN BigToString(intPart)
        ELSE BigToString(intPart) \o <<".">> \o fracPart

\* new BigNumber(b.toString()).dividedBy(new BigNumber(10).pow(decimals)).toFixed()
FormatAmount(b, decimals) ==
    LET padded == IF Len(b) <= decimals THEN Zeros(decimals + 1 - Len(b)) \o b ELSE b
        intPart == SubSeq(padded, 1, Len(padded) - decimals)
        fracPart == StripTrailingZeroChars(
                        BigToString(SubSeq(padded, Len(padded) - decimals + 1, Len(padded))))
    IN  IF Len(fracPart) = 0 THEN BigToString(intPart)
        ELSE BigToString(intPart) \o <<".">> \o fracPart

\* (BigInt(fee || 0) / BigInt(10**18)).toString()
FeeDecimals == 18

\* the fee divided exactly, as the amounts are
FormatFeeExact(fee) == FormatAmount(BigInt(fee), FeeDecimals)

FormatFee(fee) ==
    LET b == BigInt(fee)
    IN  IF Len(b) <= FeeDecimals THEN <<"0">>
        ELSE BigToString(SubSeq(b, 1, Len(b) - FeeDecimals))

\* position of the decimal point in a decimal string, Len + 1 when there is none
PointAt(s) ==
    IF \E k \in 1..Len(s) : s[k] = "." THEN CHOOSE k \in 1..Len(s) : s[k] = "."
    ELSE Len(s) + 1

IntDigits(s) == BigInt(SubSeq(s, 1, PointAt(s) - 1))

FracDigit(s, k) == IF PointAt(s) + k <= Len(s) THEN DigitVal(s[PointAt(s) + k]) ELSE 0

FracLen(s) == IF PointAt(s) > Len(s) THEN 0 ELSE Len(s) - PointAt(s)

\* BigNumber(a).gt(b) for non-negative decimal strings
BigNumberGt(a, b) ==
    \/ BigGt(IntDigits(a), IntDigits(b))
    \/ /\ IntDigits(a) = IntDigits(b)
       /\ LET n == IF FracLen(a) > FracLen(b) THEN FracLen(a) ELSE FracLen(b)
          IN  \E k \in 1..n : /\ FracDigit(a, k) > FracDigit(b, k)
                              /\ \A j \in 1..(k - 1) : FracDigit(a, j) = FracDigit(b, j)

Str0 == <<"0">>

(***************************************************************************)
(* deduplicateTransactions (src/server.js 117-163)                         *)
(***************************************************************************)
DedupKey(tx) == tx.txHash \o ":" \o tx.function \o ":" \o tx.inCurrency \o ":" \o tx.outCurrency

Seen(acc, key) == {k \in 1..Len(acc) : acc[k].key = key}

\* a > b for two strings compared character by character ("." sorts before
\* the digits)
CharRank(c) == IF c = "." THEN 0 ELSE DigitVal(c) + 1

LexGt(a, b) ==
    \/ \E k \in 1..Len(a) :
          /\ k <= Len(b)
          /\ CharRank(a[k]) > CharRank(b[k])
          /\ \A j \in 1..(k - 1) : a[j] = b[j]
    \/ /\ Len(a) > Len(b)
       /\ \A j \in 1..Len(b) : a[j] = b[j]

\* the merge of the inbound amount with the amounts compared as strings
MergeInLexical(e, tx) ==
    IF tx.inAmount # Str0
       /\ ~\E a \in Range(e.inAmounts) : a.amount = tx.inAmount /\ a.currency = tx.inCurrency
    THEN LET take == e.row.inAmount = Str0 \/ LexGt(tx.inAmount, e.row.inAmount)
         IN  [e EXCEPT !.row.inAmount = IF take THEN tx.inAmount ELSE @,
                       !.row.inCurrency = IF take THEN tx.inCurrency ELSE @,
                       !.inAmounts = Append(@, [amount |-> tx.inAmount,
                                                currency |-> tx.inCurrency])]
    ELSE e

MergeIn(e, tx) ==
    IF tx.inAmount # Str0
       /\ ~\E a \in Range(e.inAmounts) : a.amount = tx.inAmount /\ a.currency = tx.inCurrency
    THEN LET take == e.row.inAmount = Str0 \/ BigNumberGt(tx.inAmount, e.row.inAmount)
         IN  [e EXCEPT !.row.inAmount = IF take THEN tx.inAmount ELSE @,
                       !.row.inCurrency = IF take THEN tx.inCurrency ELSE @,
                       !.inAmounts = Append(@, [amount |-> tx.inAmount,
                                                currency |-> tx.inCurrency])]
    ELSE e

MergeOut(e, tx) ==
    IF tx.outAmount # Str0
       /\ ~\E a \in Range(e.outAmounts) : a.amount = tx.outAmount /\ a.currency = tx.outCurrency
    THEN LET take == e.row.outAmount = Str0 \/ BigNumberGt(tx.outAmount, e.row.outAmount)
         IN  [e EXCEPT !.row.outAmount = IF take THEN tx.outAmount ELSE @,
                       !.row.outCurrency = IF take THEN tx.outCurrency ELSE @,
                       !.outAmounts = Append(@, [amount |-> tx.outAmount,
                                                 currency |-> tx.outCurrency])]
    ELSE e

MergeFee(e, tx) ==
    IF tx.fee # Str0 /\ e.row.fee = Str0 THEN [e EXCEPT !.row.fee = tx.fee] ELSE e

RECURSIVE DedupLoop(_, _)
DedupLoop(transactions, n) ==
    IF n = 0 THEN <<>>
    ELSE LET acc == DedupLoop(transactions, n - 1)
             tx == transactions[n]
             key == DedupKey(tx)
         IN  IF Seen(acc, key) = {}
             THEN Append(acc, [key |-> key, row |-> tx,
                               inAmounts |-> <<>>, outAmounts |-> <<>>])
             ELSE LET k == CHOOSE k \in Seen(acc, key) : TRUE
                  IN  [acc EXCEPT ![k] = MergeFee(MergeOut(MergeIn(acc[k], tx), tx), tx)]

deduplicateTransactionsReversed(transactions) ==
    LET acc == DedupLoop(transactions, Len(transactions))
    IN  [k \in 1..Len(acc) |-> acc[Len(acc) + 1 - k].row]

deduplicateTransactions(transactions) ==
    LET acc == DedupLoop(transactions, Len(transactions))
    IN  [k \in 1..Len(acc) |-> acc[k].row]

(***************************************************************************)
(* getTokenDecimals (src/server.js 183-197)                                *)
(***************************************************************************)
KNOWN_TOKEN_DECIMALS ==
    [t \in {"EGLD", "WEGLD-bd4d79", "MEX-455c57", "XMEX-fda355"} |-> 18]

DefaultDecimals == 18

\* What GET /tokens/{id} can do: fail (timeout, 4xx, 5xx), or answer with a
\* body whose decimals field is absent or a number.
TokenResponses ==
    {[error |-> TRUE, hasDecimals |-> FALSE, decimals |-> 0]}
    \cup {[error |-> FALSE, hasDecimals |-> FALSE, decimals |-> 0]}
    \cup {[error |-> FALSE, hasDecimals |-> TRUE, decimals |-> d] : d \in {0, 6, 18}}

EmptyDecimalsCache == [t \in {} |-> 0]

CachePut(c, token, d) == [t \in DOMAIN c \cup {token} |-> IF t = token THEN d ELSE c[t]]

\* the resolver of the revision at src/server.js 1026-1037: cache, then network
getTokenDecimalsCacheOnly(token, tdc, upstream) ==
    IF token \in DOMAIN tdc
    THEN [ret |-> tdc[token], cache |-> tdc, net |-> FALSE]
    ELSE IF upstream.error
    THEN [ret |-> DefaultDecimals, cache |-> tdc, net |-> TRUE]
    ELSE LET decimals == IF upstream.hasDecimals /\ upstream.decimals # 0
                         THEN upstream.decimals ELSE DefaultDecimals
         IN  [ret |-> decimals, cache |-> CachePut(tdc, token, decimals), net |-> TRUE]

\* ret: the value returned; cache: tokenDecimalsCache afterwards; net: whether
\* axios.get was called.  upstream is what that call would do.
getTokenDecimals(token, tdc, upstream) ==
    IF token = "" \/ token = "EGLD"
    THEN [ret |-> 18, cache |-> tdc, net |-> FALSE]
    ELSE IF token \in DOMAIN KNOWN_TOKEN_DECIMALS
    THEN [ret |-> KNOWN_TOKEN_DECIMALS[token], cache |-> tdc, net |-> FALSE]
    ELSE IF token \in DOMAIN tdc
    THEN [ret |-> tdc[token], cache |-> tdc, net |-> FALSE]
    ELSE IF upstream.error
    THEN [ret |-> DefaultDecimals, cache |-> tdc, net |-> TRUE]
    ELSE LET decimals == IF upstream.hasDecimals /\ upstream.decimals # 0
                         THEN upstream.decimals ELSE DefaultDecimals
         IN  [ret |-> decimals, cache |-> CachePut(tdc, token, decimals), net |-> TRUE]

(***************************************************************************)
(* Token identifiers of the model                                          *)
(***************************************************************************)
RewardToken == "MEX-455c57"
RewardTokenNet == "UTK-2f80e9"
PlainToken == "USDC-c76f1f"
LpToken == "EGLDMEXFL-ef2065"
WrappedToken == "WEGLD-bd4d79"

Tokens == {"", "EGLD", WrappedToken, RewardToken, RewardTokenNet, PlainToken, LpToken}

(***************************************************************************)
(* Values of the variables a specification does not use                    *)
(***************************************************************************)
NoRequest == [walletAddress |-> "", fromDate |-> "", toDate |-> "", clientId |-> ""]

NoBody == [kind |-> "none", error |-> "", allTransactions |-> <<>>,
           taxRelevantTransactions |-> <<>>]

NoResponse == [status |-> 0, body |-> NoBody]

EmptyCache == [k \in {} |-> NoBody]

NoAnswer == [error |-> TRUE, hasDecimals |-> FALSE, decimals |-> 0]

NoCall == [token |-> "", ret |-> 0, net |-> FALSE, priorFail |-> FALSE, answer |-> NoAnswer]

HandlerIdle ==
    /\ pc = "idle"
    /\ req = NoRequest
    /\ res = NoResponse
    /\ cache = EmptyCache
    /\ fetchSite = "none"
    /\ fetchI = 0
    /\ fromIndex = 0
    /\ allTransactions = <<>>
    /\ txI = 0
    /\ hasAddedEGLD = FALSE
    /\ taxRelevantTransactions = <<>>
    /\ details = <<>>
    /\ upstreamIssued = {}
    /\ written = [s \in {"none", "open", "closed"} |-> <<>>]
    /\ sinkRaised = {}
    /\ pageLog = <<>>
    /\ detailLog = <<>>
    /\ cacheBefore = cache

DecimalsIdle == lastCall = NoCall /\ failedTokens = {}

NoRetryCall == [retries |-> 0, i |-> 0, outcomes |-> <<>>, waits |-> <<>>, end |-> "idle"]

RetryIdle == retryCall = NoRetryCall

NoConnection == [id |-> "", state |-> "unopened"]

RegistryIdle ==
    /\ connections = <<>>
    /\ clientProgress = <<>>

NoChunkCall == [kind |-> "none", start |-> 0, end |-> 0, chunkDays |-> 0, windows |-> <<>>]

ChunkIdle == chunkCall = NoChunkCall

DedupIdle ==
    /\ dedupSrc = <<>>
    /\ dedupIn = <<>>
    /\ dedupOut = <<>>
    /\ dedupPrev = <<>>
    /\ dedupCalls = 0

(***************************************************************************)
(* Request validation (src/server.js 103, 199-228)                         *)
(***************************************************************************)
Wallet == "erd1qqqqqqqqqqqqqqqqqqqqqqqqqqqqqqqqqqqqqqqqqqqqqqqqqqqqqqqqqq"
Contract == "erd1qqqqqqqqqqqqqpgqxxxxxxxxxxxxxxxxxxxxxxxxxxxxxxxxxxxxxxxxxx"
ShortAddress == "erd1qqq"
UpperAddress == "erd1QQQQQQQQQQQQQQQQQQQQQQQQQQQQQQQQQQQQQQQQQQQQQQQQQQQQQQQQQQ"

AddressAlphabet ==
    {"0", "1", "2", "3", "4", "5", "6", "7", "8", "9", "a", "b", "c", "d", "e", "f",
     "g", "h", "i", "j", "k", "l", "m", "n", "o", "p", "q", "r", "s", "t", "u", "v",
     "w", "x", "y", "z"}

\* the characters of the address strings of the model
AddressChars(address) ==
    CASE address = Wallet ->
             <<"e", "r", "d", "1">> \o [k \in 1..58 |-> "q"]
      [] address = Contract ->
             <<"e", "r", "d", "1">> \o [k \in 1..58 |->
                 IF k <= 13 THEN "q" ELSE IF k = 14 THEN "p" ELSE IF k = 15 THEN "g"
                 ELSE IF k = 16 THEN "q" ELSE "x"]
      [] address = ShortAddress -> <<"e", "r", "d", "1", "q", "q", "q">>
      [] address = UpperAddress ->
             <<"e", "r", "d", "1">> \o [k \in 1..58 |-> "Q"]
      [] OTHER -> <<>>

\* /^erd1[0-9a-z]{58}$/.test(address)
validateWalletAddress(address) ==
    LET s == AddressChars(address)
    IN  /\ Len(s) = 62
        /\ SubSeq(s, 1, 4) = <<"e", "r", "d", "1">>
        /\ \A k \in 5..62 : s[k] \in AddressAlphabet

EarlyDate == "1970-01-01T00:00:10.000Z"
LateDate == "1970-01-02T00:00:10.500Z"
BadDate == "not-a-date"

\* new Date(s).getTime(): milliseconds, or NaN
DateGetTime(s) ==
    CASE s = EarlyDate -> [nan |-> FALSE, ms |-> 10000]
      [] s = LateDate -> [nan |-> FALSE, ms |-> 86410500]
      [] OTHER -> [nan |-> TRUE, ms |-> 0]

\* a > b on two Date objects: false when either is an Invalid Date
DateGt(a, b) == ~a.nan /\ ~b.nan /\ a.ms > b.ms

\* validations of the handler without the date-range test
ValidationErrorNoRange(body) ==
    IF body.walletAddress = "" \/ body.fromDate = "" \/ body.toDate = "" \/ body.clientId = ""
    THEN "Missing required parameters"
    ELSE IF ~validateWalletAddress(body.walletAddress)
    THEN "Invalid wallet address"
    ELSE ""

\* the error of the 400 response, "" when the request passes the validations
ValidationError(body) ==
    IF body.walletAddress = "" \/ body.fromDate = "" \/ body.toDate = "" \/ body.clientId = ""
    THEN "Missing required parameters"
    ELSE IF ~validateWalletAddress(body.walletAddress)
    THEN "Invalid wallet address"
    ELSE IF DateGt(DateGetTime(body.fromDate), DateGetTime(body.toDate))
    THEN "Invalid date range"
    ELSE ""

CacheKey(body) == body.walletAddress \o ":" \o body.fromDate \o ":" \o body.toDate

ErrorBody(msg) == [kind |-> "error", error |-> msg, allTransactions |-> <<>>,
                   taxRelevantTransactions |-> <<>>]

ResultBody(all, rows) == [kind |-> "result", error |-> "", allTransactions |-> all,
                          taxRelevantTransactions |-> rows]

(***************************************************************************)
(* fetchWithRetry (src/server.js 165-181)                                  *)
(***************************************************************************)
MAX_RETRIES == 5

\* the same loop running while i <= retries
fetchWithRetryOneMore(i, outcome, retries) ==
    IF outcome = "ok" THEN [next |-> "return", i |-> i]
    ELSE IF outcome = "429"
    THEN IF i + 1 <= retries THEN [next |-> "retry", i |-> i + 1]
         ELSE [next |-> "undefined", i |-> i + 1]
    ELSE IF i = retries THEN [next |-> "throw", i |-> i]
         ELSE [next |-> "retry", i |-> i + 1]

\* One pass of the loop body with loop variable i, axios.get ending in
\* outcome ("ok", "429" or "error"): what the call does next.
fetchWithRetry(i, outcome, retries) ==
    IF outcome = "ok" THEN [next |-> "return", i |-> i]
    ELSE IF outcome = "429"
    THEN IF i + 1 < retries THEN [next |-> "retry", i |-> i + 1]
         ELSE [next |-> "undefined", i |-> i + 1]
    ELSE IF i = retries - 1 THEN [next |-> "throw", i |-> i]
         ELSE [next |-> "retry", i |-> i + 1]

BASE_DELAY_MS == 1000

\* the delay of one pass of the loop body: none after a success or before the
\* throw, delayMs * 2^i otherwise, with a jitter below 100 ms after a 429
RetryWait(i, outcome, retries, delayMs) ==
    IF outcome = "429" THEN <<[ms |-> delayMs * 2^i, jitter |-> TRUE]>>
    ELSE IF outcome = "error" /\ i # retries - 1
    THEN <<[ms |-> delayMs * 2^i, jitter |-> FALSE]>>
    ELSE <<>>

(***************************************************************************)
(* Decoders (src/server.js 104-115), on the payloads of the model          *)
(***************************************************************************)
B64Mex == "TUVYLTQ1NWM1Nw=="
B64Utk == "VVRLLTJmODBlOQ=="
B64Lp == "RUdMRE1FWEZMLWVmMjA2NQ=="
B64Wallet ==
    "ZXJkMXFxcXFxcXFxcXFxcXFxcXFxcXFxcXFxcXFxcXFxcXFxcXFxcXFxcXFxcXFxcXFxcXFxcXFxcXFxcXE="
B64Pubkey == "AAAAAAAAAAAAAAAAAAAAAAAAAAAAAAAAAAAAAAAAAAA="
B64Amount500 == "AfQ="
B64Amount10 == "Cg=="

\* ESDTTransfer@4d45582d343535633537@01f4
DataMex500 == "RVNEVFRyYW5zZmVyQDRkNDU1ODJkMzQzNTM1NjMzNTM3QDAxZjQ="
\* ESDTTransfer@45474c444d4558464c2d656632303635@0a
DataLp10 == "RVNEVFRyYW5zZmVyQDQ1NDc0YzQ0NGQ0NTU4NDY0YzJkNjU2NjMyMzAzNjM1QDBh"
\* ESDTTransfer@555344432d633736663166@2625a0
DataUsdc == "RVNEVFRyYW5zZmVyQDU1NTM0NDQzMmQ2MzM3MzY2NjMxNjZAMjYyNWEw"
\* ESDTTransfer@4d45582d343535633537
DataTwoFields == "RVNEVFRyYW5zZmVyQDRkNDU1ODJkMzQzNTM1NjMzNTM3"

\* Buffer.from(base64, 'base64').toString()
decodeBase64ToString(base64) ==
    CASE base64 = B64Mex -> "MEX-455c57"
      [] base64 = B64Utk -> "UTK-2f80e9"
      [] base64 = B64Lp -> "EGLDMEXFL-ef2065"
      [] base64 = B64Wallet -> Wallet
      [] base64 = B64Pubkey -> "\\0"
      [] base64 = B64Amount500 -> "\\x01\\xf4"
      [] base64 = B64Amount10 -> "\\n"
      [] OTHER -> ""

\* Buffer.from(base64, 'base64').toString('hex')
decodeBase64ToHex(base64) ==
    CASE base64 = B64Amount500 -> <<"0", "1", "f", "4">>
      [] base64 = B64Amount10 -> <<"0", "a">>
      [] base64 = B64Mex ->
             <<"4", "d", "4", "5", "5", "8", "2", "d", "3", "4",
               "3", "5", "3", "5", "6", "3", "3", "5", "3", "7">>
      [] OTHER -> <<>>

\* decodeBase64ToString(data).split('@') for a call descriptor: the selector,
\* then the hex fields
DescriptorParts(data) ==
    CASE data = DataMex500 ->
             <<"ESDTTransfer", "4d45582d343535633537", <<"0", "1", "f", "4">> >>
      [] data = DataLp10 ->
             <<"ESDTTransfer", "45474c444d4558464c2d656632303635", <<"0", "a">> >>
      [] data = DataUsdc ->
             <<"ESDTTransfer", "555344432d633736663166",
               <<"2", "6", "2", "5", "a", "0">> >>
      [] data = DataTwoFields -> <<"ESDTTransfer", "4d45582d343535633537">>
      [] OTHER -> <<"">>

\* data.startsWith('RVNEVFRyYW5zZmVy')
StartsWithESDTTransfer(data) == data \in {DataMex500, DataLp10, DataUsdc, DataTwoFields}

\* Buffer.from(hex, 'hex').toString()
decodeHexToString(hex) ==
    CASE hex = "4d45582d343535633537" -> "MEX-455c57"
      [] hex = "45474c444d4558464c2d656632303635" -> "EGLDMEXFL-ef2065"
      [] hex = "555344432d633736663166" -> "USDC-c76f1f"
      [] OTHER -> ""

\* BigInt(`0x${hex}`), 0n when that throws
decodeHexToBigInt(hex) ==
    IF IsHexString(hex) THEN HexDigitsToBig(hex, Len(hex)) ELSE BigZero

BigPos(b) == b # BigZero

(***************************************************************************)
(* Classification and the synchronous part of the processing loop          *)
(* (src/server.js 22-26, 253-290)                                          *)
(***************************************************************************)
TAX_RELEVANT_FUNCTIONS ==
    {"claimrewards", "claimrewardsproxy", "swap_tokens_fixed_input",
     "swap_tokens_fixed_output", "multipairswap", "transfer", "esdttransfer",
     "multiesdtnfttransfer", "swap", "send", "receive", "wrapegld", "unwrapegld",
     "aggregateEgld"}

\* String.prototype.toLowerCase on the function names of the model
ToLowerCase(fn) ==
    CASE fn = "claimRewards" -> "claimrewards"
      [] fn = "wrapEgld" -> "wrapegld"
      [] fn = "ESDTTransfer" -> "esdttransfer"
      [] fn = "aggregateEgld" -> "aggregateegld"
      [] OTHER -> fn

\* const func = (tx.function || '').toLowerCase()
Func(tx) == ToLowerCase(tx.function)

Or(a, b) == IF a # "" THEN a ELSE b

\* BigInt(s) raises a SyntaxError: s is neither empty nor a decimal integer
BigIntThrows(s) == Len(s) > 0 /\ ~IsDecString(s)

\* the test of line 266 raises: it reaches BigInt(tx.value)
ValueThrows(tx, wallet) ==
    /\ tx.receiver = wallet
    /\ tx.value # <<>>
    /\ BigIntThrows(tx.value)

\* tx.receiver === walletAddress && tx.value && BigInt(tx.value) > 0 && func !== 'wrapegld'
ReceivesEGLD(tx, wallet) ==
    /\ tx.receiver = wallet
    /\ tx.value # <<>>
    /\ BigPos(BigInt(tx.value))
    /\ Func(tx) # "wrapegld"

isTaxRelevant(tx) ==
    \/ Func(tx) \in TAX_RELEVANT_FUNCTIONS
    \/ Func(tx) = ""
    \/ tx.action = "mex"
    \/ StartsWithESDTTransfer(tx.data)

\* (BigInt(tx.fee || 0) / BigInt(10**18)).toString()
Fee(tx) == FormatFee(tx.fee)

FeeIf(cond, tx) == IF cond THEN Fee(tx) ELSE Str0

NativeDecimals == 18

\* the row pushed at lines 270-279
ValueRow(tx) ==
    [timestamp |-> tx.timestamp, function |-> "transfer",
     inAmount |-> FormatAmount(BigInt(tx.value), NativeDecimals), inCurrency |-> "EGLD",
     outAmount |-> Str0, outCurrency |-> "EGLD", fee |-> Fee(tx), txHash |-> tx.txHash]

\* index of the first transaction from k on at which line 266 raises or that
\* is not skipped at line 289, 0 when there is none
RECURSIVE NextProcessed(_, _, _)
NextProcessed(txs, k, wallet) ==
    IF k > Len(txs) THEN 0
    ELSE IF \/ ValueThrows(txs[k], wallet)
            \/ isTaxRelevant(txs[k])
            \/ ReceivesEGLD(txs[k], wallet) THEN k
    ELSE NextProcessed(txs, k + 1, wallet)

(***************************************************************************)
(* The reconciliation of one transaction with its detail                   *)
(* (src/server.js 297-725).  A push is a row before its amounts are        *)
(* formatted: each leg is the literal '0' ("zero"), a native amount        *)
(* divided by 10^18 ("native"), or a token amount whose decimals come from *)
(* getTokenDecimals ("token").                                             *)
(***************************************************************************)
Push(fn, inMode, inToken, inRaw, outMode, outToken, outRaw, fee) ==
    [function |-> fn, inMode |-> inMode, inToken |-> inToken, inRaw |-> inRaw,
     outMode |-> outMode, outToken |-> outToken, outRaw |-> outRaw, fee |-> fee]

InPush(fn, mode, token, raw, fee) ==
    Push(fn, mode, token, raw, "zero", "EGLD", BigZero, fee)

OutPush(fn, mode, token, raw, fee) ==
    Push(fn, "zero", "EGLD", BigZero, mode, token, raw, fee)

TokenOpTypes == {"esdt", "MetaESDT", "fungibleESDT", "nft", "nonFungibleESDT"}

\* BigInt(op.value || 0) > 0
OpPositive(op) == BigPos(BigInt(op.value))

egldTransfersIn(operations, wallet) ==
    SelectSeq(operations,
              LAMBDA op : op.type = "egld" /\ op.receiver = wallet /\ OpPositive(op))

tokenTransfersIn(operations, wallet) ==
    SelectSeq(operations,
              LAMBDA op : op.type \in TokenOpTypes /\ op.receiver = wallet /\ OpPositive(op))

tokenTransfersOut(operations, wallet) ==
    SelectSeq(operations,
              LAMBDA op : op.type \in TokenOpTypes /\ op.sender = wallet /\ OpPositive(op))

\* op.identifier || op.name || 'UNKNOWN' (the operations of the model carry no name)
OpToken(op) == Or(op.identifier, "UNKNOWN")

rewardTokens ==
    {"XMEX-fda355", "MEX-455c57", "UTK-2f80e9", "ZPAY-247875", "QWT-46ac01",
     "RIDE-7d18e9", "CRT-a28d59", "CYBER-5d1f4a", "AERO-458b36", "ISET-83f339",
     "BHAT-c1fde3", "SFIT-dcbf2a"}

\* /(FARM|FL-|EGLD.*FL|WEGLD.*FL|XMEXFARM|CYBEEGLD|CRTWEGLD)/i.test(token),
\* on the token identifiers of the model
lpTokenPattern(token) == token \in {LpToken}

\* index of the first TRUE of a sequence of test results, 0 when there is none
FirstIndex(passes) ==
    IF \E k \in 1..Len(passes) : passes[k]
    THEN CHOOSE k \in 1..Len(passes) : passes[k] /\ \A j \in 1..(k - 1) : ~passes[j]
    ELSE 0

\* event.topics?.[n] || ''
EventTopic(event, n) == IF n + 1 <= Len(event.topics) THEN event.topics[n + 1] ELSE ""

EventToken(event) == Or(decodeBase64ToString(EventTopic(event, 0)), "UNKNOWN")

EventAmount(event) == decodeHexToBigInt(decodeBase64ToHex(Or(EventTopic(event, 2), "0")))

EventsTo(events, identifiers, wallet) ==
    SelectSeq(events,
              LAMBDA event : /\ event.identifier \in identifiers
                             /\ decodeBase64ToString(EventTopic(event, 3)) = wallet)

esdtResultsOf(results, wallet) ==
    SelectSeq(results,
              LAMBDA r : /\ r.receiver = wallet
                         /\ r.data # ""
                         /\ \/ StartsWithESDTTransfer(r.data)
                            \/ r.function = "ESDTTransfer"
                            \/ r.function = "MultiESDTNFTTransfer")

ResultToken(r) == decodeHexToString(DescriptorParts(r.data)[2])

ResultAmount(r) == decodeHexToBigInt(DescriptorParts(r.data)[3])

\* the loops of lines 319-334: one push per native operation towards the wallet
EgldPushes(tx, func, had, egldIn) ==
    [j \in 1..Len(egldIn) |->
        InPush(Or(func, "transfer"), "native", "EGLD", BigInt(egldIn[j].value),
               FeeIf(j = 1 /\ ~had, tx))]

\* lines 459-493 without the liquidity-pool test of line 469
RewardResultIndexNoLpTest(esdtResults) ==
    FirstIndex([j \in 1..Len(esdtResults) |->
                   /\ Len(DescriptorParts(esdtResults[j].data)) >= 3
                   /\ ResultToken(esdtResults[j]) # ""
                   /\ BigPos(ResultAmount(esdtResults[j]))])

\* lines 459-493: the first execution result that passes every test, 0 if none
RewardResultIndex(esdtResults) ==
    FirstIndex([j \in 1..Len(esdtResults) |->
                   /\ Len(DescriptorParts(esdtResults[j].data)) >= 3
                   /\ ResultToken(esdtResults[j]) # ""
                   /\ ~lpTokenPattern(ResultToken(esdtResults[j]))
                   /\ BigPos(ResultAmount(esdtResults[j]))])

\* lines 353-510: the single push of a reward claim
RewardPush(tx, func, had, detail, wallet) ==
    LET tokIn == tokenTransfersIn(detail.operations, wallet)
        k1 == FirstIndex([j \in 1..Len(tokIn) |-> OpToken(tokIn[j]) \in rewardTokens])
        k2 == FirstIndex([j \in 1..Len(tokIn) |->
                             /\ OpToken(tokIn[j]) # "UNKNOWN"
                             /\ ~lpTokenPattern(OpToken(tokIn[j]))])
        esdtEvents == EventsTo(detail.events, {"ESDTTransfer", "ESDTNFTTransfer"}, wallet)
        k3 == FirstIndex([j \in 1..Len(esdtEvents) |->
                             /\ EventToken(esdtEvents[j]) # "UNKNOWN"
                             /\ ~lpTokenPattern(EventToken(esdtEvents[j]))
                             /\ BigPos(EventAmount(esdtEvents[j]))])
        esdtResults == esdtResultsOf(detail.results, wallet)
        k4 == RewardResultIndex(esdtResults)
    IN  IF k1 # 0
        THEN InPush(func, "token", OpToken(tokIn[k1]), BigInt(tokIn[k1].value), Fee(tx))
        ELSE IF k2 # 0
        THEN InPush(func, "token", OpToken(tokIn[k2]), BigInt(tokIn[k2].value), Fee(tx))
        ELSE IF k3 # 0
        THEN InPush(func, "token", EventToken(esdtEvents[k3]),
                    EventAmount(esdtEvents[k3]), Fee(tx))
        ELSE IF k4 # 0
        THEN InPush(func, "token", ResultToken(esdtResults[k4]),
                    ResultAmount(esdtResults[k4]), FeeIf(k4 = 1 /\ ~had, tx))
        ELSE InPush(func, "zero", "UNKNOWN", BigZero, Fee(tx))

\* lines 512-537: the push of a wrap
WrapPush(tx, func, detail, wallet) ==
    LET tokIn == tokenTransfersIn(detail.operations, wallet)
        k == FirstIndex([j \in 1..Len(tokIn) |-> tokIn[j].identifier = "WEGLD-bd4d79"])
    IN  IF k # 0 /\ BigPos(BigInt(tokIn[k].value))
        THEN Push(func, "token", tokIn[k].identifier, BigInt(tokIn[k].value),
                  "native", "EGLD", BigInt(tx.value), Fee(tx))
        ELSE Push(func, "zero", "EGLD", BigZero,
                  "native", "EGLD", BigInt(tx.value), Fee(tx))

\* reduce((max, op) => BigInt(op.value) >= BigInt(max.value) ? op : max, ops[0])
RECURSIVE ReduceLast(_, _, _)
ReduceLast(ops, k, max) ==
    IF k > Len(ops) THEN max
    ELSE ReduceLast(ops, k + 1,
                    IF ~BigGt(BigInt(max.value), BigInt(ops[k].value)) THEN ops[k] ELSE max)

PrimaryLast(ops) == ReduceLast(ops, 1, ops[1])

\* reduce((max, op) => BigInt(op.value) > BigInt(max.value) ? op : max, ops[0])
RECURSIVE Reduce(_, _, _)
Reduce(ops, k, max) ==
    IF k > Len(ops) THEN max
    ELSE Reduce(ops, k + 1,
                IF BigGt(BigInt(ops[k].value), BigInt(max.value)) THEN ops[k] ELSE max)

Primary(ops) == Reduce(ops, 1, ops[1])

SwapFunctions == {"swap_tokens_fixed_input", "swap_tokens_fixed_output", "multipairswap"}

\* lines 541-566: the legs of a swap
SwapPush(tx, func, detail, wallet) ==
    LET tokIn == tokenTransfersIn(detail.operations, wallet)
        tokOut == tokenTransfersOut(detail.operations, wallet)
        inCurrency == IF Len(tokIn) > 0 THEN Or(Primary(tokIn).identifier, "UNKNOWN")
                      ELSE "UNKNOWN"
        outCurrency == IF Len(tokOut) > 0 THEN Or(Primary(tokOut).identifier, "UNKNOWN")
                       ELSE "UNKNOWN"
    IN  Push(func,
             IF inCurrency # "UNKNOWN" THEN "token" ELSE "zero", inCurrency,
             IF inCurrency # "UNKNOWN" THEN BigInt(Primary(tokIn).value) ELSE BigZero,
             IF outCurrency # "UNKNOWN" THEN "token" ELSE "zero", outCurrency,
             IF outCurrency # "UNKNOWN" THEN BigInt(Primary(tokOut).value) ELSE BigZero,
             Fee(tx))

\* the indices a loop does not skip, given the result of its tests for each
\* element
Kept(passes) == SelectSeq([j \in 1..Len(passes) |-> j], LAMBDA j : passes[j])

\* lines 588-725: the generic path (indexOf(x) === 0 is index 1)
GenericPushes(tx, func, had, detail, wallet) ==
    LET egldIn == egldTransfersIn(detail.operations, wallet)
        tokIn == tokenTransfersIn(detail.operations, wallet)
        tokOut == tokenTransfersOut(detail.operations, wallet)
        esdtEvents == EventsTo(detail.events,
                               {"ESDTTransfer", "ESDTNFTTransfer", "transfer",
                                "ESDTLocalTransfer"}, wallet)
        esdtResults == esdtResultsOf(detail.results, wallet)
        fn == Or(func, "transfer")
        keptIn == Kept([j \in 1..Len(tokIn) |->
                           OpToken(tokIn[j]) # "UNKNOWN" /\ BigPos(BigInt(tokIn[j].value))])
        fromIn == [n \in 1..Len(keptIn) |->
                      InPush(fn, "token", OpToken(tokIn[keptIn[n]]),
                             BigInt(tokIn[keptIn[n]].value),
                             FeeIf(keptIn[n] = 1 /\ ~had, tx))]
        keptOut == Kept([j \in 1..Len(tokOut) |->
                            OpToken(tokOut[j]) # "UNKNOWN" /\ BigPos(BigInt(tokOut[j].value))])
        fromOut == [n \in 1..Len(keptOut) |->
                       OutPush(fn, "token", OpToken(tokOut[keptOut[n]]),
                               BigInt(tokOut[keptOut[n]].value),
                               FeeIf(keptOut[n] = 1 /\ ~had, tx))]
        keptEvents == Kept([j \in 1..Len(esdtEvents) |->
                               /\ EventToken(esdtEvents[j]) # "UNKNOWN"
                               /\ BigPos(EventAmount(esdtEvents[j]))])
        fromEvents == [n \in 1..Len(keptEvents) |->
                          InPush(fn, "token", EventToken(esdtEvents[keptEvents[n]]),
                                 EventAmount(esdtEvents[keptEvents[n]]),
                                 FeeIf(keptEvents[n] = 1 /\ ~had, tx))]
        keptResults == Kept([j \in 1..Len(esdtResults) |->
                                /\ Len(DescriptorParts(esdtResults[j].data)) >= 3
                                /\ ResultToken(esdtResults[j]) # ""
                                /\ BigPos(ResultAmount(esdtResults[j]))])
        fromResults == [n \in 1..Len(keptResults) |->
                           InPush(fn, "token", ResultToken(esdtResults[keptResults[n]]),
                                  ResultAmount(esdtResults[keptResults[n]]),
                                  FeeIf(keptResults[n] = 1 /\ ~had, tx))]
        fallback == IF /\ ~had
                       /\ Len(egldIn) = 0 /\ Len(tokIn) = 0 /\ Len(tokOut) = 0
                       /\ Len(esdtEvents) = 0 /\ Len(esdtResults) = 0
                       /\ func # "aggregateEgld"
                    THEN <<Push(Or(func, "unknown"), "zero", "EGLD", BigZero,
                                "zero", "EGLD", BigZero, Fee(tx))>>
                    ELSE <<>>
    IN  fromIn \o fromOut \o fromEvents \o fromResults \o fallback

\* lines 297-725: every push made for tx once its detail has arrived; had is
\* hasAddedEGLD as the synchronous part left it
Reconcile(tx, had, detail, wallet) ==
    LET func == Func(tx)
        egldIn == egldTransfersIn(detail.operations, wallet)
        tokIn == tokenTransfersIn(detail.operations, wallet)
        tokOut == tokenTransfersOut(detail.operations, wallet)
        egld == EgldPushes(tx, func, had, egldIn)
        had1 == had \/ Len(egldIn) > 0
        sendsValue == tx.sender = wallet /\ tx.value # <<>> /\ BigPos(BigInt(tx.value))
    IN  IF func = "aggregateEgld" /\ sendsValue
        THEN egld \o <<OutPush(func, "native", "EGLD", BigInt(tx.value), Fee(tx))>>
        ELSE IF func \in {"claimrewards", "claimrewardsproxy"}
        THEN egld \o <<RewardPush(tx, func, had1, detail, wallet)>>
        ELSE IF func = "wrapegld" /\ sendsValue
        THEN egld \o <<WrapPush(tx, func, detail, wallet)>>
        ELSE IF /\ func \in SwapFunctions
                /\ \/ SwapPush(tx, func, detail, wallet).inToken # "UNKNOWN"
                   \/ SwapPush(tx, func, detail, wallet).outToken # "UNKNOWN"
        THEN egld \o <<SwapPush(tx, func, detail, wallet)>>
        ELSE egld \o GenericPushes(tx, func, had1, detail, wallet)

(***************************************************************************)
(* Formatting the pushes: the getTokenDecimals calls in the order the      *)
(* handler makes them, then the division by 10^decimals                    *)
(***************************************************************************)
\* what GET /tokens/{id} does for each token during one reconciliation
UpstreamFor(up, token) ==
    IF token \in DOMAIN up THEN up[token]
    ELSE [error |-> TRUE, hasDecimals |-> FALSE, decimals |-> 0]

Leg(mode, token, tdc, up) ==
    IF mode = "token" THEN getTokenDecimals(token, tdc, UpstreamFor(up, token))
    ELSE [ret |-> NativeDecimals, cache |-> tdc, net |-> FALSE]

LegAmount(mode, raw, decimals) ==
    IF mode = "zero" THEN Str0 ELSE FormatAmount(raw, decimals)

\* rows: the rows pushed; cache: tokenDecimalsCache afterwards; net: whether
\* a token metadata request was issued
RECURSIVE Resolve(_, _, _, _, _)
Resolve(tx, pushes, k, tdc, up) ==
    IF k > Len(pushes) THEN [rows |-> <<>>, cache |-> tdc, net |-> FALSE]
    ELSE LET p == pushes[k]
             legIn == Leg(p.inMode, p.inToken, tdc, up)
             legOut == Leg(p.outMode, p.outToken, legIn.cache, up)
             row == [timestamp |-> tx.timestamp, function |-> p.function,
                     inAmount |-> LegAmount(p.inMode, p.inRaw, legIn.ret),
                     inCurrency |-> p.inToken,
                     outAmount |-> LegAmount(p.outMode, p.outRaw, legOut.ret),
                     outCurrency |-> p.outToken,
                     fee |-> p.fee, txHash |-> tx.txHash]
             rest == Resolve(tx, pushes, k + 1, legOut.cache, up)
         IN  [rows |-> <<row>> \o rest.rows, cache |-> rest.cache,
              net |-> legIn.net \/ legOut.net \/ rest.net]

StaticTokens == {"", "EGLD"} \cup DOMAIN KNOWN_TOKEN_DECIMALS

\* the tokens whose decimals the pushes resolve over the network
NetworkTokens(pushes, tdc) ==
    ({pushes[k].inToken : k \in {j \in 1..Len(pushes) : pushes[j].inMode = "token"}}
     \cup {pushes[k].outToken : k \in {j \in 1..Len(pushes) : pushes[j].outMode = "token"}})
    \ (StaticTokens \cup DOMAIN tdc)

(***************************************************************************)
(* What the upstream API can answer                                        *)
(***************************************************************************)
MaxTxs == 2
MaxOps == 2
MaxEvents == 1
MaxResults == 2

SeqUpTo(S, n) == UNION {[1..m -> S] : m \in 0..n}

OneEgld == <<"1", "0", "0", "0", "0", "0", "0", "0", "0", "0",
             "0", "0", "0", "0", "0", "0", "0", "0", "0">>
SmallFee == <<"5", "0", "0", "0", "0", "0", "0", "0", "0", "0", "0", "0", "0", "0">>
LargeFee == <<"2", "0", "0", "0", "0", "0", "0", "0", "0", "0",
              "0", "0", "0", "0", "0", "0", "0", "0", "0">>
MixedFee == <<"2", "5", "0", "0", "0", "0", "0", "0", "0", "0",
              "0", "0", "0", "0", "0", "0", "0", "0", "0">>

Tx(hash, fn, sender, receiver, value, fee, data) ==
    [txHash |-> hash, timestamp |-> 100, sender |-> sender, receiver |-> receiver,
     function |-> fn, value |-> value, fee |-> fee, data |-> data, action |-> ""]

TxPlainIn == Tx("b1", "", Contract, Wallet, OneEgld, SmallFee, "")
TxPlainOut == Tx("b2", "", Wallet, Contract, OneEgld, SmallFee, "")
TxClaim == Tx("b3", "claimRewards", Wallet, Contract, Str0, LargeFee, "")
TxSwap == Tx("b4", "swap_tokens_fixed_input", Wallet, Contract, Str0, SmallFee, "")
TxWrap == Tx("b5", "wrapEgld", Wallet, Contract, OneEgld, SmallFee, "")
TxToken == Tx("b6", "ESDTTransfer", Contract, Wallet, Str0, LargeFee, DataUsdc)
TxOther == Tx("b7", "stake", Wallet, Contract, Str0, SmallFee, "")
TxAggregate == Tx("b8", "aggregateEgld", Wallet, Contract, OneEgld, SmallFee, "")
TxNamedIn == Tx("b10", "receive", Contract, Wallet, OneEgld, MixedFee, "")
TxBadValue == Tx("b9", "", Contract, Wallet, <<"1", ".", "5">>, SmallFee, "")

Op(type, sender, receiver, identifier, value) ==
    [type |-> type, sender |-> sender, receiver |-> receiver,
     identifier |-> identifier, value |-> value]

OpEgldIn == Op("egld", Contract, Wallet, "", OneEgld)
OpRewardIn == Op("esdt", Contract, Wallet, RewardToken, <<"5", "0", "0">>)
OpPlainIn == Op("esdt", Contract, Wallet, PlainToken, <<"1", "0">>)
OpLpIn == Op("esdt", Contract, Wallet, LpToken, <<"5", "0", "0">>)
OpWrappedIn == Op("esdt", Contract, Wallet, WrappedToken, <<"5", "0", "0">>)
OpPlainOut == Op("esdt", Wallet, Contract, PlainToken,
                 <<"2", "5", "0", "0", "0", "0", "0">>)

OpPool == {OpEgldIn, OpRewardIn, OpPlainIn, OpLpIn, OpWrappedIn, OpPlainOut}

Event(identifier, topics) == [identifier |-> identifier, topics |-> topics]

EventReward == Event("ESDTTransfer", <<B64Utk, "", B64Amount500, B64Wallet>>)
EventLp == Event("ESDTTransfer", <<B64Lp, "", B64Amount10, B64Wallet>>)
EventPubkey == Event("ESDTTransfer", <<B64Mex, "", B64Amount500, B64Pubkey>>)

EventPool == {EventReward, EventLp, EventPubkey}

Result(receiver, fn, data) == [receiver |-> receiver, function |-> fn, data |-> data]

ResultReward == Result(Wallet, "", DataMex500)
ResultLp == Result(Wallet, "", DataLp10)
ResultPlain == Result(Wallet, "", DataUsdc)
ResultTwoFields == Result(Wallet, "ESDTTransfer", DataTwoFields)

ResultPool == {ResultReward, ResultLp, ResultPlain, ResultTwoFields}

Detail(operations, events, results) ==
    [fetched |-> TRUE, operations |-> operations, events |-> events, results |-> results]

NoDetail == [fetched |-> FALSE, operations |-> <<>>, events |-> <<>>, results |-> <<>>]

\* "handler": few transactions, few details, up to MaxTxs transactions on any
\* number of pages; "engine": one short page of at most one transaction, with
\* any detail built from the pools
TxPool(mode) ==
    IF mode = "engine"
    THEN {TxPlainIn, TxPlainOut, TxClaim, TxSwap, TxWrap, TxToken, TxOther, TxAggregate,
          TxNamedIn}
    ELSE IF mode = "pages" THEN {TxOther}
    ELSE {TxPlainIn, TxClaim, TxOther, TxBadValue}

TxCap(mode) == IF mode \in {"engine", "pages"} THEN 1 ELSE MaxTxs

Details(mode) ==
    IF mode = "engine"
    THEN {Detail(o, e, r) : o \in SeqUpTo(OpPool, MaxOps),
                            e \in SeqUpTo(EventPool, MaxEvents),
                            r \in SeqUpTo(ResultPool, MaxResults)}
    ELSE {Detail(<<>>, <<>>, <<>>),
          Detail(<<OpEgldIn>>, <<>>, <<>>),
          Detail(<<>>, <<>>, <<ResultLp, ResultReward>>)}

\* a page of the transaction list: the transactions of it that the model
\* follows (the others are transactions line 289 skips) and whether it holds
\* PAGE_SIZE transactions
Pages(mode, have) ==
    {[txs |-> t, full |-> f] : t \in SeqUpTo(TxPool(mode), TxCap(mode) - have),
                               f \in IF mode = "engine" THEN {FALSE} ELSE BOOLEAN}

HandlerTokenResponses ==
    {[error |-> TRUE, hasDecimals |-> FALSE, decimals |-> 0],
     [error |-> FALSE, hasDecimals |-> TRUE, decimals |-> 6],
     [error |-> FALSE, hasDecimals |-> TRUE, decimals |-> 18]}

(***************************************************************************)
(* POST /fetch-transactions (src/server.js 199-748)                        *)
(***************************************************************************)
PAGE_SIZE == 1000
OffsetCeiling == 10000

ServerError == "Could not fetch transactions. Please try again later."

Respond(status, body, newCache) ==
    /\ pc' = "responded"
    /\ res' = [status |-> status, body |-> body]
    /\ cache' = newCache
    /\ fetchSite' = "none"
    /\ fetchI' = 0

CacheSet(c, key, body) == [k \in DOMAIN c \cup {key} |-> IF k = key THEN body ELSE c[k]]

\* what the registry may hold for a clientId: no entry, an entry whose
\* response stream accepts writes, an entry whose res.write throws
Sinks == {"none", "open", "closed"}

\* the closure of lines 64-70 without its try/catch
senderNoCatch(sink, msg) ==
    IF sink = "open" THEN [written |-> <<msg>>, raised |-> FALSE]
    ELSE [written |-> <<>>, raised |-> TRUE]

\* the closure registered at lines 64-70: res.write inside try/catch
sender(sink, msg) ==
    IF sink = "open" THEN [written |-> <<msg>>, raised |-> FALSE]
    ELSE [written |-> <<>>, raised |-> FALSE]

\* lines 95-101
reportProgress(sink, message) ==
    IF sink = "none" THEN [written |-> <<>>, raised |-> FALSE]
    ELSE sender(sink, message)

\* clientProgress.get(clientId): nothing is registered under a missing clientId
SinkOf(clientId, sink) == IF clientId = "" THEN "none" ELSE sink

RECURSIVE WrittenBy(_, _, _)
WrittenBy(sink, msgs, k) ==
    IF k > Len(msgs) THEN <<>>
    ELSE reportProgress(sink, msgs[k]).written \o WrittenBy(sink, msgs, k + 1)

\* the reportProgress calls of one step, for each thing the registry may hold
Report(clientId, msgs) ==
    /\ written' = [s \in Sinks |-> written[s] \o WrittenBy(SinkOf(clientId, s), msgs, 1)]
    /\ sinkRaised' = sinkRaised \cup
           {s \in Sinks : \E k \in 1..Len(msgs) :
                              reportProgress(SinkOf(clientId, s), msgs[k]).raised}

ValidationMessages(body) ==
    CASE ValidationError(body) = "Missing required parameters" -> <<"Missing parameters">>
      [] ValidationError(body) = "Invalid wallet address" ->
             <<"Validating address...", "Invalid address">>
      [] ValidationError(body) = "Invalid date range" ->
             <<"Validating address...", "Invalid date range">>
      [] OTHER -> <<"Validating address...">>

\* lines 199-235, up to the first request of fetchWithRetry
PostFetchTransactions(requests) ==
    /\ \E body \in requests :
          /\ req' = body
          /\ cacheBefore' = cache
          /\ IF ValidationError(body) # ""
             THEN /\ Respond(400, ErrorBody(ValidationError(body)), cache)
                  /\ Report(body.clientId, ValidationMessages(body))
                  /\ UNCHANGED upstreamIssued
             ELSE IF CacheKey(body) \in DOMAIN cache
             THEN /\ Respond(200, cache[CacheKey(body)], cache)
                  /\ Report(body.clientId,
                            ValidationMessages(body) \o <<"Retrieved from cache">>)
                  /\ UNCHANGED upstreamIssued
             ELSE /\ pc' = "fetching"
                  /\ fetchSite' = "account"
                  /\ fetchI' = 0
                  /\ upstreamIssued' = upstreamIssued \cup {"account"}
                  /\ Report(body.clientId, ValidationMessages(body))
                  /\ UNCHANGED <<res, cache>>
    /\ UNCHANGED <<tokenDecimalsCache, fromIndex, allTransactions, txI, hasAddedEGLD,
                   taxRelevantTransactions, details, pageLog, detailLog>>
    /\ UNCHANGED <<decimalsVars, dedupVars, retryVars, registryVars, chunkVars>>

\* the message of line 255 for the transactions k..last
Processing(k, last) == [n \in 1..(last - k + 1) |-> "Processing"]

\* lines 253-293 from transaction k on, then lines 731-742 when none is left
\* or lines 743-747 when line 266 raises;
\* said: the messages reported earlier in the same step; waited: the delays
\* awaited since the last upstream request
ProcessFrom(txs, k, rows, issued, said, waited) ==
    LET j == NextProcessed(txs, k, req.walletAddress)
    IN  IF j = 0
        THEN \E final \in {deduplicateTransactions(rows)} :
                 /\ taxRelevantTransactions' = final
                 /\ Respond(200, ResultBody(txs, final),
                            CacheSet(cache, CacheKey(req), ResultBody(txs, final)))
                 /\ txI' = Len(txs) + 1
                 /\ hasAddedEGLD' = FALSE
                 /\ upstreamIssued' = issued
                 /\ Report(req.clientId,
                           said \o Processing(k, Len(txs))
                                \o <<IF Len(final) = 0
                                     THEN "No tax-relevant transactions found"
                                     ELSE "Completed">>)
                 /\ UNCHANGED detailLog
        ELSE IF ValueThrows(txs[j], req.walletAddress)
        THEN /\ taxRelevantTransactions' = rows
             /\ Respond(500, ErrorBody(ServerError), cache)
             /\ txI' = j
             /\ hasAddedEGLD' = FALSE
             /\ upstreamIssued' = issued
             /\ Report(req.clientId, said \o Processing(k, j) \o <<"Failed">>)
             /\ UNCHANGED detailLog
        ELSE /\ taxRelevantTransactions' =
                    IF ReceivesEGLD(txs[j], req.walletAddress)
                    THEN Append(rows, ValueRow(txs[j])) ELSE rows
             /\ hasAddedEGLD' = ReceivesEGLD(txs[j], req.walletAddress)
             /\ txI' = j
             /\ pc' = "fetching"
             /\ fetchSite' = "detail"
             /\ fetchI' = 0
             /\ upstreamIssued' = issued \cup {"detail"}
             /\ Report(req.clientId, said \o Processing(k, j))
             /\ detailLog' = Append(detailLog, [tx |-> j, waited |-> waited])
             /\ UNCHANGED <<res, cache>>

PageRequest(from) == [from |-> from, answer |-> "pending"]

\* line 237-246: the first page request
StartPagination ==
    /\ fromIndex' = 0
    /\ pc' = "fetching"
    /\ fetchSite' = "transactions"
    /\ fetchI' = 0
    /\ upstreamIssued' = upstreamIssued \cup {"transactions"}
    /\ pageLog' = Append(pageLog, PageRequest(0))
    /\ Report(req.clientId, <<"Fetching transactions...">>)
    /\ UNCHANGED <<res, cache, tokenDecimalsCache, allTransactions, txI, hasAddedEGLD,
                   taxRelevantTransactions, details, detailLog>>

\* the catch of lines 743-747 without its reportProgress call
Fail500Silent ==
    /\ Respond(500, ErrorBody(ServerError), cache)
    /\ Report(req.clientId, <<>>)
    /\ UNCHANGED <<tokenDecimalsCache, fromIndex, allTransactions, txI, hasAddedEGLD,
                   taxRelevantTransactions, details, upstreamIssued, pageLog, detailLog>>

\* lines 743-747
Fail500 ==
    /\ Respond(500, ErrorBody(ServerError), cache)
    /\ Report(req.clientId, <<"Failed">>)
    /\ UNCHANGED <<tokenDecimalsCache, fromIndex, allTransactions, txI, hasAddedEGLD,
                   taxRelevantTransactions, details, upstreamIssued, pageLog, detailLog>>

\* lines 726-728, then the next transaction
SkipDetail(waited) ==
    /\ ProcessFrom(allTransactions, txI + 1, taxRelevantTransactions, upstreamIssued,
                   <<>>, waited)
    /\ UNCHANGED <<tokenDecimalsCache, fromIndex, allTransactions, details, pageLog>>

\* the loop of line 238 goes on whatever the length of the batch
MorePagesNoBreak(page, from) == from + PAGE_SIZE < OffsetCeiling

\* lines 238 and 250: another page is requested after this one
MorePages(page, from) == page.full /\ from + PAGE_SIZE < OffsetCeiling

\* lines 247-251, then the next page request or the processing loop
ReceivePage(page) ==
    LET txs == allTransactions \o page.txs
        answered == [pageLog EXCEPT ![Len(pageLog)].answer =
                         IF page.full THEN "full" ELSE "short"]
    IN  /\ allTransactions' = txs
        /\ details' = [k \in 1..Len(txs) |-> NoDetail]
        /\ UNCHANGED tokenDecimalsCache
        /\ IF MorePages(page, fromIndex)
           THEN /\ fromIndex' = fromIndex + PAGE_SIZE
                /\ fetchI' = 0
                /\ pageLog' = Append(answered, PageRequest(fromIndex + PAGE_SIZE))
                /\ Report(req.clientId, <<"Fetched">>)
                /\ UNCHANGED <<pc, res, cache, fetchSite, txI, hasAddedEGLD,
                               taxRelevantTransactions, upstreamIssued, detailLog>>
           ELSE /\ fromIndex' = IF page.full THEN fromIndex + PAGE_SIZE ELSE fromIndex
                /\ pageLog' = answered
                /\ ProcessFrom(txs, 1, <<>>, upstreamIssued, <<"Fetched">>, <<>>)

\* lines 297-725 for transaction txI, then the next transaction
ReceiveDetail(detail, pushes, up) ==
    \E r \in {Resolve(allTransactions[txI], pushes, 1, tokenDecimalsCache, up)} :
        /\ tokenDecimalsCache' = r.cache
        /\ details' = [details EXCEPT ![txI] = detail]
        /\ ProcessFrom(allTransactions, txI + 1, taxRelevantTransactions \o r.rows,
                       IF r.net THEN upstreamIssued \cup {"token"} ELSE upstreamIssued,
                       <<>>, <<>>)
        /\ UNCHANGED <<fromIndex, allTransactions, pageLog>>

\* the handler resumes after fetchWithRetry ended with next, its last pass
\* having awaited the delays waited: a response
\* ("return"), no response and no error ("undefined"), or an error ("throw")
Resume(mode, next, waited) ==
    CASE fetchSite = "account" ->
             IF next = "throw" THEN Fail500 ELSE StartPagination
      [] fetchSite = "transactions" ->
             IF next = "return"
             THEN \E page \in Pages(mode, Len(allTransactions)) : ReceivePage(page)
             ELSE Fail500
      [] fetchSite = "detail" ->
             IF next = "return"
             THEN \E detail \in Details(mode) :
                     \E pushes \in {Reconcile(allTransactions[txI], hasAddedEGLD, detail,
                                              req.walletAddress)} :
                         \E up \in [NetworkTokens(pushes, tokenDecimalsCache)
                                        -> HandlerTokenResponses] :
                             ReceiveDetail(detail, pushes, up)
             ELSE SkipDetail(waited)

\* one request of fetchWithRetry ends in outcome
Attempt(mode, outcome) ==
    /\ LET f == fetchWithRetry(fetchI, outcome, MAX_RETRIES)
       IN  IF f.next = "retry"
           THEN /\ fetchI' = f.i
                /\ UNCHANGED <<pc, res, cache, tokenDecimalsCache, fetchSite, fromIndex,
                               allTransactions, txI, hasAddedEGLD,
                               taxRelevantTransactions, details, upstreamIssued,
                               written, sinkRaised, pageLog, detailLog>>
           ELSE Resume(mode, f.next,
                       RetryWait(fetchI, outcome, MAX_RETRIES, BASE_DELAY_MS))
    /\ UNCHANGED <<req, cacheBefore>>
    /\ UNCHANGED <<decimalsVars, dedupVars, retryVars, registryVars, chunkVars>>

Requests ==
    [walletAddress : {"", ShortAddress, UpperAddress, Wallet},
     fromDate : {"", BadDate, EarlyDate, LateDate},
     toDate : {"", BadDate, EarlyDate, LateDate},
     clientId : {"", "c1"}]

ValidRequest == [walletAddress |-> Wallet, fromDate |-> EarlyDate, toDate |-> LateDate,
                 clientId |-> "c1"]

\* the state after construction, or with one response cached by an earlier
\* request whose transaction list was empty
Init ==
    /\ pc = "idle"
    /\ req = NoRequest
    /\ res = NoResponse
    /\ cache \in {EmptyCache, CacheSet(EmptyCache, CacheKey(ValidRequest),
                                        ResultBody(<<>>, <<>>))}
    /\ tokenDecimalsCache = EmptyDecimalsCache
    /\ fetchSite = "none"
    /\ fetchI = 0
    /\ fromIndex = 0
    /\ allTransactions = <<>>
    /\ txI = 0
    /\ hasAddedEGLD = FALSE
    /\ taxRelevantTransactions = <<>>
    /\ details = <<>>
    /\ upstreamIssued = {}
    /\ written = [s \in Sinks |-> <<>>]
    /\ sinkRaised = {}
    /\ pageLog = <<>>
    /\ detailLog = <<>>
    /\ cacheBefore = cache
    /\ DecimalsIdle
    /\ DedupIdle
    /\ RetryIdle
    /\ RegistryIdle
    /\ ChunkIdle

Receive ==
    /\ pc = "idle"
    /\ PostFetchTransactions(Requests)

FetchSucceeds ==
    /\ pc = "fetching"
    /\ Attempt("handler", "ok")

FetchRateLimited ==
    /\ pc = "fetching"
    /\ Attempt("handler", "429")

FetchFails ==
    /\ pc = "fetching"
    /\ Attempt("handler", "error")

Next == Receive \/ FetchSucceeds \/ FetchRateLimited \/ FetchFails

Spec == Init /\ [][Next]_vars

(***************************************************************************)
(* Properties of the handler                                               *)
(***************************************************************************)
Answered == pc = "responded"

FieldsPresent == req.walletAddress # "" /\ req.fromDate # "" /\ req.toDate # ""

WellFormedRequest ==
    /\ req # NoRequest
    /\ FieldsPresent
    /\ validateWalletAddress(req.walletAddress)

FromAfterTo ==
    /\ ~DateGetTime(req.fromDate).nan
    /\ ~DateGetTime(req.toDate).nan
    /\ DateGetTime(req.fromDate).ms > DateGetTime(req.toDate).ms

UnparseableDate == DateGetTime(req.fromDate).nan \/ DateGetTime(req.toDate).nan

\* C1: a request with every field present, a well-formed wallet address and
\* fromDate later than toDate is answered with status 400, and no upstream
\* request of any kind is ever issued for it.
DateRangeRejected ==
    (WellFormedRequest /\ FromAfterTo)
        => /\ upstreamIssued = {}
           /\ Answered
           /\ res.status = 400

DateRangeRejectedWitness ==
    /\ WellFormedRequest
    /\ req.clientId # ""
    /\ req.fromDate = LateDate
    /\ req.toDate = EarlyDate
    /\ Answered
    /\ res.body.error = "Invalid date range"

\* C2: a request whose fromDate or toDate does not parse to a valid instant
\* is answered with status 400 before any upstream request is issued.
UnparseableDateRejected ==
    (WellFormedRequest /\ UnparseableDate)
        => /\ upstreamIssued = {}
           /\ Answered => res.status = 400

\* C3: a request with a valid walletAddress, fromDate and toDate but no
\* clientId passes the required-fields check and is not answered with 400.
ClientIdOptional ==
    (/\ WellFormedRequest
     /\ ~UnparseableDate
     /\ ~FromAfterTo
     /\ req.clientId = ""
     /\ Answered)
        => res.status # 400

ResponseRows == res.body.taxRelevantTransactions

RowsOfHash(hash) == SelectSeq(ResponseRows, LAMBDA row : row.txHash = hash)

Processed ==
    /\ Answered
    /\ res.status = 200
    /\ res.body.allTransactions = allTransactions
    /\ Len(details) = Len(allTransactions)

NoMovement(detail) ==
    detail.operations = <<>> /\ detail.events = <<>> /\ detail.results = <<>>

PlainNativeReceipt(tx) ==
    /\ tx.function = ""
    /\ tx.receiver = req.walletAddress
    /\ tx.value = OneEgld

\* C8: a transaction with no function name, the wallet as receiver and the
\* native value 1000000000000000000, whose detail shows no other movement,
\* has exactly one row in the response: inAmount "1", inCurrency "EGLD",
\* outAmount "0".
PlainReceiptOneRow ==
    Processed =>
        \A k \in 1..Len(allTransactions) :
            (/\ PlainNativeReceipt(allTransactions[k])
             /\ \A j \in 1..Len(allTransactions) :
                    allTransactions[j].txHash = allTransactions[k].txHash
                        => NoMovement(details[j]))
                => LET rows == RowsOfHash(allTransactions[k].txHash)
                   IN  /\ Len(rows) = 1
                       /\ rows[1].inAmount = <<"1">>
                       /\ rows[1].inCurrency = "EGLD"
                       /\ rows[1].outAmount = <<"0">>

PlainReceiptOneRowWitness ==
    /\ Processed
    /\ Len(allTransactions) = 2
    /\ PlainNativeReceipt(allTransactions[2])
    /\ details[2].fetched
    /\ NoMovement(details[2])
    /\ allTransactions[1].txHash # allTransactions[2].txHash
    /\ Len(RowsOfHash(allTransactions[2].txHash)) = 1

ZeroRow(row) ==
    /\ row.inAmount = Str0
    /\ row.outAmount = Str0
    /\ row.inCurrency = "EGLD"
    /\ row.outCurrency = "EGLD"

\* C12: in a 200 response every transaction classified tax-relevant has at
\* least one row; when no source yields a movement for it, it has a single
\* row, with inAmount "0", outAmount "0" and currency "EGLD".
RelevantRepresented ==
    Processed =>
        \A k \in 1..Len(allTransactions) :
            LET tx == allTransactions[k]
                rows == RowsOfHash(tx.txHash)
            IN  isTaxRelevant(tx) =>
                    /\ Len(rows) >= 1
                    /\ (/\ ~ReceivesEGLD(tx, req.walletAddress)
                        /\ \A j \in 1..Len(allTransactions) :
                              allTransactions[j].txHash = tx.txHash
                                  => NoMovement(details[j]))
                           => Len(rows) = 1 /\ ZeroRow(rows[1])

(***************************************************************************)
(* The same handler on one valid request whose transaction list holds one  *)
(* transaction, with every detail the pools can build, and an upstream     *)
(* that answers every request at the first attempt.                        *)
(***************************************************************************)
InitEngine ==
    /\ HandlerIdle
    /\ tokenDecimalsCache = EmptyDecimalsCache
    /\ DecimalsIdle
    /\ DedupIdle
    /\ RetryIdle
    /\ RegistryIdle
    /\ ChunkIdle

ReceiveValid ==
    /\ pc = "idle"
    /\ PostFetchTransactions({ValidRequest})

EngineFetchSucceeds ==
    /\ pc = "fetching"
    /\ Attempt("engine", "ok")

NextEngine == ReceiveValid \/ EngineFetchSucceeds

SpecEngine == InitEngine /\ [][NextEngine]_vars

(***************************************************************************)
(* Properties of the reconciliation                                        *)
(***************************************************************************)
TheTx == allTransactions[1]

TheDetail == details[1]

Reconciled ==
    /\ Processed
    /\ Len(allTransactions) = 1
    /\ TheDetail.fetched

TokenRows ==
    SelectSeq(ResponseRows,
              LAMBDA row : ~(row.inCurrency = "EGLD" /\ row.outCurrency = "EGLD"))

\* the decimals getTokenDecimals answered for a token during the request
DecimalsUsed(token) ==
    IF token \in DOMAIN KNOWN_TOKEN_DECIMALS THEN KNOWN_TOKEN_DECIMALS[token]
    ELSE IF token \in DOMAIN tokenDecimalsCache THEN tokenDecimalsCache[token]
    ELSE DefaultDecimals

InboundOps == tokenTransfersIn(TheDetail.operations, req.walletAddress)

OutboundOps == tokenTransfersOut(TheDetail.operations, req.walletAddress)

WalletEvents ==
    EventsTo(TheDetail.events, {"ESDTTransfer", "ESDTNFTTransfer"}, req.walletAddress)

WalletResults == esdtResultsOf(TheDetail.results, req.walletAddress)

IsDescriptor(r) == Len(DescriptorParts(r.data)) >= 3 /\ BigPos(ResultAmount(r))

\* the execution results are two descriptors, reward names the allow-listed
\* token of one and the other names a liquidity-pool token
RewardAndLpResults(reward) ==
    /\ Len(WalletResults) = 2
    /\ \A i \in 1..2 : IsDescriptor(WalletResults[i])
    /\ \E i \in 1..2 :
          /\ ResultToken(WalletResults[i]) = reward
          /\ reward \in rewardTokens
          /\ lpTokenPattern(ResultToken(WalletResults[3 - i]))

RewardClaim ==
    /\ Reconciled
    /\ ToLowerCase(TheTx.function) \in {"claimrewards", "claimrewardsproxy"}

RewardSelected(reward) ==
    /\ \E n \in 1..Len(TokenRows) : TokenRows[n].inCurrency = reward
    /\ \A n \in 1..Len(TokenRows) :
          /\ TokenRows[n].inCurrency = reward
          /\ ~lpTokenPattern(TokenRows[n].inCurrency)
          /\ ~lpTokenPattern(TokenRows[n].outCurrency)

\* no operation or log event moves any other token into the wallet
OnlyRewardOrLpElsewhere(reward) ==
    /\ \A n \in 1..Len(InboundOps) :
          OpToken(InboundOps[n]) = reward \/ lpTokenPattern(OpToken(InboundOps[n]))
    /\ \A n \in 1..Len(WalletEvents) :
          \/ EventToken(WalletEvents[n]) = reward
          \/ lpTokenPattern(EventToken(WalletEvents[n]))

SwapCall ==
    /\ Reconciled
    /\ ToLowerCase(TheTx.function) \in SwapFunctions
    /\ Len(InboundOps) > 0 \/ Len(OutboundOps) > 0

Raw(op) == BigInt(op.value)

\* the highest raw value of ops, the earliest one of equal values
Highest(ops) ==
    CHOOSE k \in 1..Len(ops) :
        /\ \A j \in 1..Len(ops) : ~BigGt(Raw(ops[j]), Raw(ops[k]))
        /\ \A j \in 1..(k - 1) : BigGt(Raw(ops[k]), Raw(ops[j]))

LegOf(ops) ==
    IF Len(ops) = 0 THEN [currency |-> "UNKNOWN", amount |-> Str0]
    ELSE [currency |-> ops[Highest(ops)].identifier,
          amount |-> FormatAmount(Raw(ops[Highest(ops)]),
                                  DecimalsUsed(ops[Highest(ops)].identifier))]

\* C10: the row of a swap has the inbound token movement of highest raw value
\* as its inbound leg and the outbound one of highest raw value as its
\* outbound leg, the earliest of equal values winning; the other movements
\* produce no row.
SwapPrimaryLegs ==
    SwapCall =>
        /\ Len(TokenRows) = 1
        /\ TokenRows[1].inCurrency = LegOf(InboundOps).currency
        /\ TokenRows[1].inAmount = LegOf(InboundOps).amount
        /\ TokenRows[1].outCurrency = LegOf(OutboundOps).currency
        /\ TokenRows[1].outAmount = LegOf(OutboundOps).amount

SwapPrimaryLegsWitness ==
    /\ SwapCall
    /\ Len(InboundOps) = 2
    /\ Raw(InboundOps[1]) = Raw(InboundOps[2])
    /\ InboundOps[1].identifier # InboundOps[2].identifier
    /\ Len(TokenRows) = 1
    /\ TokenRows[1].inCurrency = InboundOps[1].identifier

HasFee(tx) == FormatFee(tx.fee) # Str0

FeeRows(rows) == SelectSeq(rows, LAMBDA row : row.fee # Str0)

\* C11: for every transaction with a nonzero fee that yields rows, exactly
\* one of its rows carries the fee of the transaction and every other row
\* of that hash carries fee "0".
FeeOnExactlyOneRow ==
    Processed =>
        \A k \in 1..Len(allTransactions) :
            LET rows == RowsOfHash(allTransactions[k].txHash)
            IN  (HasFee(allTransactions[k]) /\ Len(rows) > 0)
                    => /\ Len(FeeRows(rows)) = 1
                       /\ FeeRows(rows)[1].fee = Fee(allTransactions[k])

EqualsIgnoringCase(a, b) == ToLowerCase(a) = ToLowerCase(b)

\* the three conditions of the classification as the specification words them
WatchedOrValueOrTransfer(tx) ==
    \/ \E name \in TAX_RELEVANT_FUNCTIONS : EqualsIgnoringCase(tx.function, name)
    \/ BigPos(BigInt(tx.value))
    \/ StartsWithESDTTransfer(tx.data)

\* C13: a listed transaction is processed (its detail is requested) whenever
\* its function name equals a watched name ignoring case, or its native
\* value is nonzero, or its data begins with the ESDTTransfer prefix.
RelevantProcessed ==
    Processed =>
        \A k \in 1..Len(allTransactions) :
            WatchedOrValueOrTransfer(allTransactions[k]) => details[k].fetched

\* the messages and the body of a request whose last page was short
OrdinaryMessages ==
    {"Validating address...", "Fetching transactions...", "Fetched", "Processing",
     "No tax-relevant transactions found", "Completed"}

OrdinarySuccess ==
    /\ res.status = 200
    /\ res.body = ResultBody(allTransactions, taxRelevantTransactions)
    /\ \A k \in 1..Len(written["open"]) : written["open"][k] \in OrdinaryMessages

\* the loop of line 238 ended at the offset ceiling and its last page was full
CeilingReachedFull ==
    /\ Len(pageLog) * PAGE_SIZE = OffsetCeiling
    /\ pageLog[Len(pageLog)].answer = "full"

\* C15: a request whose pagination stopped at the offset ceiling with a full
\* last page does not complete as an ordinary success: it ends in an error or
\* carries a notice in the response or in the progress stream
TruncationSurfaced == (pc = "responded" /\ CeilingReachedFull) => ~OrdinarySuccess

\* C16: no reportProgress call of the handler raises, whatever the registry
\* holds for the clientId, so the status, the body and the upstream calls,
\* which read nothing else of the registry, are those of a request without
\* listener; and nothing is written for a clientId that is not registered
ListenerIndependent ==
    /\ sinkRaised = {}
    /\ written["none"] = <<>>
    /\ written["closed"] = <<>>

ListenerIndependentWitness ==
    /\ pc = "responded"
    /\ res.status = 200
    /\ req.clientId # ""
    /\ "detail" \in upstreamIssued
    /\ Len(written["open"]) > 3

\* the reportProgress calls made for the request's clientId, in order
Reported == written["open"]

SuccessMessages == {"Retrieved from cache", "No tax-relevant transactions found", "Completed"}

\* C18: when the request is answered 500, the last message reported for its
\* clientId is the failure message, and no success message was reported
FailureReported ==
    (pc = "responded" /\ res.status = 500) =>
        /\ Len(Reported) > 0
        /\ Reported[Len(Reported)] = "Failed"
        /\ \A k \in 1..Len(Reported) : Reported[k] \notin SuccessMessages

FailureReportedWitness ==
    /\ pc = "responded"
    /\ res.status = 500
    /\ Len(pageLog) > 1
    /\ Reported[Len(Reported)] = "Failed"

\* every page of the transaction list has been received
PaginationDone == pageLog # <<>> /\ pageLog[Len(pageLog)].answer # "pending"

MalformedListed ==
    \E k \in 1..Len(allTransactions) : BigIntThrows(allTransactions[k].value)

\* C17: a listed transaction with a non-integer value is skipped: once the
\* pages are fetched the request is answered 200, never 500
MalformedItemSkipped ==
    (pc = "responded" /\ PaginationDone /\ MalformedListed) => res.status = 200

(***************************************************************************)
(* The pagination loop alone: one valid request, pages of transactions     *)
(* that line 289 skips, every upstream request ending in a response, a 429 *)
(* or a failure.  Each awaited request and delay ends, hence the fairness. *)
(***************************************************************************)
ReceivePaged ==
    /\ pc = "idle"
    /\ PostFetchTransactions({ValidRequest})

PageFetchSucceeds ==
    /\ pc = "fetching"
    /\ Attempt("pages", "ok")

PageFetchRateLimited ==
    /\ pc = "fetching"
    /\ Attempt("pages", "429")

PageFetchFails ==
    /\ pc = "fetching"
    /\ Attempt("pages", "error")

NextPages == ReceivePaged \/ PageFetchSucceeds \/ PageFetchRateLimited \/ PageFetchFails

SpecPages == InitEngine /\ [][NextPages]_vars /\ WF_vars(NextPages)

InPagination == pc = "fetching" /\ fetchSite = "transactions"

\* the k-th page request asks for offset (k-1)*PAGE_SIZE, below the ceiling,
\* and is made only after all earlier requests were answered by a full page
PageLogOrdered ==
    \A k \in 1..Len(pageLog) :
        /\ pageLog[k].from = (k - 1) * PAGE_SIZE
        /\ pageLog[k].from < OffsetCeiling
        /\ k < Len(pageLog) => pageLog[k].answer = "full"

\* C19: the pagination loop requests the offsets 0, PAGE_SIZE, ... in order,
\* one page at a time, none after a short page and none at or above the
\* ceiling, and it always comes to an end
PaginationTerminates == []PageLogOrdered /\ (InPagination ~> ~InPagination)

PaginationTerminatesWitness ==
    /\ pc = "responded"
    /\ Len(pageLog) >= 3
    /\ pageLog[Len(pageLog)].answer = "short"

\* C21: the detail requests of a request are made in transaction order, and
\* a delay is awaited between two consecutive ones
DetailFetchesSpaced ==
    \A k \in 2..Len(detailLog) :
        /\ detailLog[k].tx > detailLog[k - 1].tx
        /\ detailLog[k].waited # <<>>

GenericCall ==
    /\ Reconciled
    /\ Func(TheTx) \notin {"claimrewards", "claimrewardsproxy", "wrapegld"} \cup SwapFunctions

OpTokens(ops) == {OpToken(ops[n]) : n \in 1..Len(ops)}

YieldingEvents ==
    SelectSeq(WalletEvents,
              LAMBDA event : EventToken(event) # "UNKNOWN" /\ BigPos(EventAmount(event)))

EventTokens == {EventToken(YieldingEvents[n]) : n \in 1..Len(YieldingEvents)}

OpsYield == Len(InboundOps) > 0 \/ Len(OutboundOps) > 0

\* C22: in the generic path the token rows of a transaction whose operations
\* yield rows all come from its operations, and those of a transaction whose
\* operations yield none and whose log events yield some all come from its
\* log events
LaterSourcesAreFallbacks ==
    GenericCall =>
        /\ OpsYield =>
               \A n \in 1..Len(TokenRows) :
                   \/ TokenRows[n].inCurrency \in OpTokens(InboundOps)
                   \/ TokenRows[n].outCurrency \in OpTokens(OutboundOps)
        /\ (~OpsYield /\ Len(YieldingEvents) > 0) =>
               \A n \in 1..Len(TokenRows) : TokenRows[n].inCurrency \in EventTokens

\* an inbound movement of the detail names an allow-listed reward token
RewardNamed ==
    \/ \E n \in 1..Len(InboundOps) : OpToken(InboundOps[n]) \in rewardTokens
    \/ \E n \in 1..Len(WalletEvents) :
          EventToken(WalletEvents[n]) \in rewardTokens /\ BigPos(EventAmount(WalletEvents[n]))
    \/ \E n \in 1..Len(WalletResults) :
          IsDescriptor(WalletResults[n]) /\ ResultToken(WalletResults[n]) \in rewardTokens

\* C25: the reward row of a reward claim names an allow-listed token whenever
\* an inbound movement of its operations, log events or execution results
\* names one, and it never names a liquidity-pool token
AllowListPreferred ==
    RewardClaim =>
        \A n \in 1..Len(TokenRows) :
            /\ RewardNamed => TokenRows[n].inCurrency \in rewardTokens
            /\ ~lpTokenPattern(TokenRows[n].inCurrency)

NativeOps == egldTransfersIn(TheDetail.operations, req.walletAddress)

\* the native inflow of the transaction's value field is also an operation
ValueSeenTwice ==
    /\ Reconciled
    /\ ReceivesEGLD(TheTx, req.walletAddress)
    /\ \E n \in 1..Len(NativeOps) : NativeOps[n].value = TheTx.value

ValueRows ==
    SelectSeq(ResponseRows,
              LAMBDA row : /\ row.inCurrency = "EGLD"
                           /\ row.inAmount = FormatAmount(BigInt(TheTx.value), NativeDecimals))

\* C26: a native inflow seen both in the value field of a transaction and in
\* an 'egld' operation of it appears in exactly one row of the response,
\* whatever the function name of the transaction
MovementReportedOnce == ValueSeenTwice => Len(ValueRows) = 1

CacheHit == req # NoRequest /\ CacheKey(req) \in DOMAIN cacheBefore

\* C28: the response cache is written only by a request answered 200, with
\* the body of the answer; a request answered 400 or 500 leaves it as it
\* was; and a request whose key is in the cache is answered with the stored
\* body without any upstream request
CacheWrittenOnSuccessOnly ==
    /\ ~Answered => cache = cacheBefore
    /\ (Answered /\ res.status # 200) => cache = cacheBefore
    /\ (Answered /\ res.status = 200) =>
           cache = CacheSet(cacheBefore, CacheKey(req), res.body)
    /\ (Answered /\ CacheHit) =>
           /\ res.status = 200
           /\ res.body = cacheBefore[CacheKey(req)]
           /\ upstreamIssued = {}

\* q is the integer quotient of the decimal integer fee by 10^18
IsQuotient(q, fee) ==
    IF Len(fee) <= 18 THEN q = Str0
    ELSE Len(fee) = Len(q) + 18 /\ SubSeq(fee, 1, Len(q)) = q

\* the integer amount * 10^d of a decimal string with at most d decimals
Scaled(amount, d) ==
    LET int == SubSeq(amount, 1, PointAt(amount) - 1)
        frac == SubSeq(amount, PointAt(amount) + 1, Len(amount))
    IN  BigInt(int \o frac \o [k \in 1..(d - Len(frac)) |-> "0"])

DecimalsOf(currency) == IF currency = "EGLD" THEN NativeDecimals ELSE DecimalsUsed(currency)

\* the raw amounts the transaction and its detail carry
RawAmounts ==
    {BigInt(TheTx.value)}
    \cup {BigInt(TheDetail.operations[n].value) : n \in 1..Len(TheDetail.operations)}
    \cup {EventAmount(TheDetail.events[n]) : n \in 1..Len(TheDetail.events)}
    \cup {ResultAmount(r) : r \in {x \in Range(TheDetail.results) :
                                       Len(DescriptorParts(x.data)) >= 3}}

ExactAmount(amount, currency) ==
    \/ amount = Str0
    \/ /\ FracLen(amount) <= DecimalsOf(currency)
       /\ amount[Len(amount)] # "."
       /\ Scaled(amount, DecimalsOf(currency)) \in RawAmounts

\* C30: the fee of every row is "0" or the integer quotient of the
\* transaction's fee by 10^18, hence "0" on every row when the fee is below
\* 10^18, while the amounts are exact quotients by 10^decimals
FeeTruncatedAmountsExact ==
    Reconciled =>
        \A n \in 1..Len(ResponseRows) :
            /\ ResponseRows[n].fee = Str0 \/ IsQuotient(ResponseRows[n].fee, TheTx.fee)
            /\ Len(TheTx.fee) <= 18 => ResponseRows[n].fee = Str0
            /\ ExactAmount(ResponseRows[n].inAmount, ResponseRows[n].inCurrency)
            /\ ExactAmount(ResponseRows[n].outAmount, ResponseRows[n].outCurrency)

FeeTruncatedAmountsExactWitness ==
    /\ Reconciled
    /\ TheTx.fee = MixedFee
    /\ \E n \in 1..Len(ResponseRows) : ResponseRows[n].fee = <<"2">>
    /\ \E n \in 1..Len(ResponseRows) : FracLen(ResponseRows[n].inAmount) > 0

(***************************************************************************)
(* Specification of getTokenDecimals alone: any sequence of calls, each    *)
(* with any token and any behaviour of the metadata endpoint.              *)
(***************************************************************************)
InitDecimals ==
    /\ HandlerIdle
    /\ DedupIdle
    /\ RetryIdle
    /\ RegistryIdle
    /\ ChunkIdle
    /\ DecimalsIdle
    /\ tokenDecimalsCache = EmptyDecimalsCache

CallGetTokenDecimals ==
    \E token \in Tokens, upstream \in TokenResponses :
        LET r == getTokenDecimals(token, tokenDecimalsCache, upstream)
        IN  /\ tokenDecimalsCache' = r.cache
            /\ lastCall' = [token |-> token, ret |-> r.ret, net |-> r.net,
                            priorFail |-> token \in failedTokens,
                            answer |-> IF r.net THEN upstream ELSE NoAnswer]
            /\ failedTokens' = IF r.net /\ upstream.error
                               THEN failedTokens \cup {token} ELSE failedTokens
            /\ UNCHANGED handlerVars
            /\ UNCHANGED dedupVars
            /\ UNCHANGED <<retryVars, registryVars, chunkVars>>

NextDecimals == CallGetTokenDecimals

SpecDecimals == InitDecimals /\ [][NextDecimals]_vars

\* C4: getTokenDecimals("EGLD") returns 18 whatever the decimals cache holds and
\* whatever the metadata endpoint would answer, and issues no network request.
NativeDecimalsAlways18 ==
    lastCall.token = "EGLD" => lastCall.ret = 18 /\ ~lastCall.net

NativeDecimalsWitness ==
    /\ lastCall.token = "EGLD"
    /\ lastCall.ret = 18
    /\ DOMAIN tokenDecimalsCache # {}
    /\ failedTokens # {}

\* C5: once the metadata request for an identifier has failed, every later
\* call for that identifier returns 18 and issues no new network request.
FailedLookupIsPermanent ==
    lastCall.priorFail => lastCall.ret = 18 /\ ~lastCall.net

\* C24: when the metadata request of a call succeeds and reports a decimals
\* count, zero included, the call returns that count and the cache holds it
\* for the identifier
ReportedDecimalsKept ==
    (lastCall.net /\ ~lastCall.answer.error /\ lastCall.answer.hasDecimals) =>
        /\ lastCall.ret = lastCall.answer.decimals
        /\ lastCall.token \in DOMAIN tokenDecimalsCache
        /\ tokenDecimalsCache[lastCall.token] = lastCall.answer.decimals

(***************************************************************************)
(* Specification of deduplicateTransactions alone: any list of rows, any   *)
(* exchange of two neighbouring rows, then the function applied once to    *)
(* the list and once more to its own result.                               *)
(***************************************************************************)
MaxRows == 3

DedupHash == "a1"

Row(fn, inA, inC, outA, outC, fee) ==
    [timestamp |-> 1, function |-> fn, inAmount |-> inA, inCurrency |-> inC,
     outAmount |-> outA, outCurrency |-> outC, fee |-> fee, txHash |-> DedupHash]

DedupFees == {<<"0">>, <<"1">>, <<"2">>}

DedupRows ==
    {Row("transfer", a, RewardToken, Str0, "EGLD", f) :
        a \in {<<"2">>, <<"1", "0">>}, f \in DedupFees}
    \cup {Row("transfer", <<"0", ".", "5">>, "EGLD", Str0, "EGLD", f) :
        f \in {<<"0">>, <<"1">>}}
    \cup {Row("transfer", Str0, "EGLD", Str0, "EGLD", f) : f \in {<<"0">>, <<"2">>}}
    \cup {Row("transfer", Str0, "EGLD", a, "EGLD", Str0) :
        a \in {<<"0", ".", "5">>, <<"3">>}}
    \cup {Row("transfer", Str0, "EGLD", <<"1", "0">>, RewardToken, Str0)}

RowLists == UNION {[1..n -> DedupRows] : n \in 0..MaxRows}

InitDedup ==
    /\ HandlerIdle
    /\ DecimalsIdle
    /\ RetryIdle
    /\ RegistryIdle
    /\ ChunkIdle
    /\ tokenDecimalsCache = EmptyDecimalsCache
    /\ dedupSrc \in RowLists
    /\ dedupIn = dedupSrc
    /\ dedupOut = <<>>
    /\ dedupPrev = <<>>
    /\ dedupCalls = 0

Swap(s, k) ==
    [j \in 1..Len(s) |-> IF j = k THEN s[k + 1] ELSE IF j = k + 1 THEN s[k] ELSE s[j]]

ShuffleRows ==
    /\ dedupCalls = 0
    /\ dedupIn = dedupSrc
    /\ \E k \in 1..(Len(dedupIn) - 1) :
          /\ dedupIn[k] # dedupIn[k + 1]
          /\ dedupIn' = Swap(dedupIn, k)
    /\ UNCHANGED <<dedupSrc, dedupOut, dedupPrev, dedupCalls>>
    /\ UNCHANGED <<handlerVars, decimalsVars, retryVars, tokenDecimalsCache, registryVars,
                   chunkVars>>

Deduplicate ==
    /\ dedupCalls < 2
    /\ dedupPrev' = IF dedupCalls = 0 THEN dedupIn ELSE dedupOut
    /\ dedupOut' = deduplicateTransactions(dedupPrev')
    /\ dedupCalls' = dedupCalls + 1
    /\ UNCHANGED <<dedupSrc, dedupIn>>
    /\ UNCHANGED <<handlerVars, decimalsVars, retryVars, tokenDecimalsCache, registryVars,
                   chunkVars>>

NextDedup == ShuffleRows \/ Deduplicate

SpecDedup == InitDedup /\ [][NextDedup]_vars

\* C6: deduplicateTransactions applied to its own result returns that result,
\* row for row and in the same order.
DedupIdempotent ==
    dedupCalls = 2 => dedupOut = dedupPrev

DedupIdempotentWitness ==
    /\ dedupCalls = 2
    /\ Len(dedupOut) >= 2
    /\ Len(dedupOut) < Len(dedupSrc)
    /\ dedupOut = dedupPrev

RowOfKey(rows, key) == CHOOSE r \in Range(rows) : DedupKey(r) = key

SameMerge(a, b) ==
    /\ a.inAmount = b.inAmount
    /\ a.inCurrency = b.inCurrency
    /\ a.outAmount = b.outAmount
    /\ a.outCurrency = b.outCurrency
    /\ a.fee = b.fee

\* C7: reordering the input rows leaves the merged row of every key the same:
\* same inAmount/inCurrency, same outAmount/outCurrency, same fee.
DedupOrderIndependent ==
    dedupCalls = 1 =>
        LET ref == deduplicateTransactions(dedupSrc)
        IN  \A r \in Range(dedupOut) : SameMerge(r, RowOfKey(ref, DedupKey(r)))

\* the rows of the input that share the key of row r
Group(rows, r) == {g \in Range(rows) : DedupKey(g) = DedupKey(r)}

\* C23: the merged row of every key has the numerically largest inAmount and
\* the numerically largest outAmount of the input rows of that key, and a
\* nonzero fee whenever one of them has a nonzero fee
MergeKeepsMaxima ==
    dedupCalls = 1 =>
        /\ \A g \in Range(dedupPrev) : \E r \in Range(dedupOut) : DedupKey(r) = DedupKey(g)
        /\ \A r \in Range(dedupOut) :
              LET group == Group(dedupPrev, r)
              IN  /\ \E g \in group : g.inAmount = r.inAmount
                  /\ \A g \in group : ~BigNumberGt(g.inAmount, r.inAmount)
                  /\ \E g \in group : g.outAmount = r.outAmount
                  /\ \A g \in group : ~BigNumberGt(g.outAmount, r.outAmount)
                  /\ (\E g \in group : g.fee # Str0) => r.fee # Str0

MergeKeepsMaximaWitness ==
    /\ dedupCalls = 1
    /\ Len(dedupPrev) = 3
    /\ Len(dedupOut) = 1
    /\ dedupPrev[1].inAmount = <<"1", "0">>
    /\ dedupPrev[2].inAmount = <<"2">>
    /\ dedupPrev[1].fee = Str0
    /\ dedupPrev[3].fee # Str0
    /\ dedupOut[1].inAmount = <<"1", "0">>
    /\ dedupOut[1].fee # Str0

(***************************************************************************)
(* The progress registry (src/server.js 55-93): connections are opened for *)
(* a clientId, closed by the client and ended by the 10-minute timer, in   *)
(* any order.                                                              *)
(***************************************************************************)
MaxConns == 3

ClientIds == {"c1", "c2"}

InitRegistry ==
    /\ HandlerIdle
    /\ tokenDecimalsCache = EmptyDecimalsCache
    /\ DecimalsIdle
    /\ DedupIdle
    /\ RetryIdle
    /\ ChunkIdle
    /\ connections = <<>>
    /\ clientProgress = [id \in ClientIds |-> 0]

\* clientProgress.delete(id)
RegistryDelete(registry, id) == [registry EXCEPT ![id] = 0]

\* lines 55-93 up to the registration of the timers and of the close handler
OpenConnection ==
    /\ Len(connections) < MaxConns
    /\ \E id \in ClientIds :
          /\ connections' = Append(connections, [id |-> id, state |-> "open"])
          /\ clientProgress' = [clientProgress EXCEPT ![id] = Len(connections) + 1]
    /\ UNCHANGED <<handlerVars, decimalsVars, dedupVars, retryVars, chunkVars,
                   tokenDecimalsCache>>

\* lines 78-82: the timer of a connection fires; the connection is ended
\* and its close event is still to come
TimeoutConnection ==
    /\ \E c \in 1..Len(connections) :
          /\ connections[c].state = "open"
          /\ connections' = [connections EXCEPT ![c].state = "ended"]
          /\ clientProgress' = RegistryDelete(clientProgress, connections[c].id)
    /\ UNCHANGED <<handlerVars, decimalsVars, dedupVars, retryVars, chunkVars,
                   tokenDecimalsCache>>

\* lines 84-90: the close event of a connection
CloseConnection ==
    /\ \E c \in 1..Len(connections) :
          /\ connections[c].state \in {"open", "ended"}
          /\ connections' = [connections EXCEPT ![c].state = "closed"]
          /\ clientProgress' = RegistryDelete(clientProgress, connections[c].id)
    /\ UNCHANGED <<handlerVars, decimalsVars, dedupVars, retryVars, chunkVars,
                   tokenDecimalsCache>>

NextRegistry == OpenConnection \/ TimeoutConnection \/ CloseConnection

SpecRegistry == InitRegistry /\ [][NextRegistry]_vars

OpenFor(id) ==
    {c \in 1..Len(connections) : connections[c].id = id /\ connections[c].state = "open"}

\* C27: a clientId has a registered sender exactly when a connection opened
\* for it is still open, and the sender writes to a connection of that
\* clientId that is open
RegistryMatchesConnections ==
    \A id \in ClientIds :
        /\ clientProgress[id] # 0 <=> OpenFor(id) # {}
        /\ clientProgress[id] # 0 => clientProgress[id] \in OpenFor(id)

(***************************************************************************)
(* The time windows of a date range: the per-day transfer chunks           *)
(* (src/server.js 806-820, src/unnamed/part_002 90-103) and splitDateRange *)
(* (src/unnamed/part_002 22-35), on instants in whole seconds.             *)
(***************************************************************************)
SECONDS_IN_DAY == 86400

Min(a, b) == IF a < b THEN a ELSE b

\* for (ts = start; ts < end; ts += 86400): [ts, Math.min(ts + 86398, end)]
RECURSIVE DayChunks(_, _)
DayChunks(ts, end) ==
    IF ts < end
    THEN <<[after |-> ts, before |-> Min(ts + 86398, end)]>>
             \o DayChunks(ts + SECONDS_IN_DAY, end)
    ELSE <<>>

\* the loop of splitDateRange from cursor on (setDate adds whole days)
RECURSIVE splitDateRange(_, _, _)
splitDateRange(cursor, end, chunkDays) ==
    IF cursor < end
    THEN LET chunkEnd == Min(cursor + chunkDays * SECONDS_IN_DAY, end)
         IN  <<[after |-> cursor, before |-> chunkEnd]>>
                 \o splitDateRange(chunkEnd + SECONDS_IN_DAY, end, chunkDays)
    ELSE <<>>

RangeStarts == {0, 1000, 86400}

RangeLengths == {0, 1, 86398, 86399, 86400, 86401, 172799, 172800, 172801}

ChunkDays == {1, 30}

InitChunks ==
    /\ HandlerIdle
    /\ tokenDecimalsCache = EmptyDecimalsCache
    /\ DecimalsIdle
    /\ DedupIdle
    /\ RetryIdle
    /\ RegistryIdle
    /\ chunkCall \in {[kind |-> "none", start |-> s, end |-> s + n, chunkDays |-> d,
                       windows |-> <<>>] :
                         s \in RangeStarts, n \in RangeLengths, d \in ChunkDays}

ChunkByDay ==
    /\ chunkCall.kind = "none"
    /\ chunkCall' = [chunkCall EXCEPT !.kind = "days",
                                      !.windows = DayChunks(chunkCall.start, chunkCall.end)]
    /\ UNCHANGED <<handlerVars, decimalsVars, dedupVars, retryVars, registryVars,
                   tokenDecimalsCache>>

ChunkBySplit ==
    /\ chunkCall.kind = "none"
    /\ chunkCall' = [chunkCall EXCEPT !.kind = "split",
                                      !.windows = splitDateRange(chunkCall.start,
                                                                 chunkCall.end,
                                                                 chunkCall.chunkDays)]
    /\ UNCHANGED <<handlerVars, decimalsVars, dedupVars, retryVars, registryVars,
                   tokenDecimalsCache>>

NextChunks == ChunkByDay \/ ChunkBySplit

SpecChunks == InitChunks /\ [][NextChunks]_vars

Covered(t) ==
    \E k \in 1..Len(chunkCall.windows) :
        chunkCall.windows[k].after <= t /\ t <= chunkCall.windows[k].before

\* C29: every second of the requested range lies in the window of a chunk
WindowsCoverRange ==
    chunkCall.kind # "none" => \A t \in chunkCall.start..chunkCall.end : Covered(t)

(***************************************************************************)
(* Specification of fetchWithRetry alone: one call, with any number of     *)
(* allowed attempts up to MAX_RETRIES and any outcome of each request.     *)
(***************************************************************************)
RetryCounts == 1..MAX_RETRIES

InitRetry ==
    /\ HandlerIdle
    /\ tokenDecimalsCache = EmptyDecimalsCache
    /\ DecimalsIdle
    /\ DedupIdle
    /\ RegistryIdle
    /\ ChunkIdle
    /\ retryCall \in {[retries |-> n, i |-> 0, outcomes |-> <<>>, waits |-> <<>>,
                       end |-> "running"] : n \in RetryCounts}

\* one pass of the loop body of lines 166-179
Pass(outcome) ==
    /\ LET f == fetchWithRetry(retryCall.i, outcome, retryCall.retries)
       IN  retryCall' =
               [retryCall EXCEPT
                   !.i = f.i,
                   !.outcomes = Append(@, outcome),
                   !.waits = @ \o RetryWait(retryCall.i, outcome, retryCall.retries,
                                            BASE_DELAY_MS),
                   !.end = IF f.next = "retry" THEN "running" ELSE f.next]
    /\ UNCHANGED <<handlerVars, decimalsVars, dedupVars, tokenDecimalsCache, registryVars,
                   chunkVars>>

AttemptSucceeds ==
    /\ retryCall.end = "running"
    /\ Pass("ok")

AttemptRateLimited ==
    /\ retryCall.end = "running"
    /\ Pass("429")

AttemptFails ==
    /\ retryCall.end = "running"
    /\ Pass("error")

NextRetry == AttemptSucceeds \/ AttemptRateLimited \/ AttemptFails

SpecRetry == InitRetry /\ [][NextRetry]_vars

Attempts == Len(retryCall.outcomes)

CallEnded == retryCall.end \in {"return", "undefined", "throw"}

\* C14: fetchWithRetry returns a response or throws; when every allowed
\* attempt has failed, whatever the failures were, it throws and never
\* completes without a response.
ReturnsOrThrows ==
    CallEnded =>
        /\ retryCall.end # "undefined"
        /\ retryCall.outcomes[Attempts] # "ok" => retryCall.end = "throw"

\* C20: a call makes at most `retries` attempts, makes none after a success,
\* and between attempt k and attempt k + 1 (k from 1) waits
\* delayMs * 2^(k - 1), with a jitter below 100 ms exactly when attempt k
\* ended in a 429.
BoundedBackoff ==
    retryCall.end # "idle" =>
        /\ Attempts <= retryCall.retries
        /\ \A k \in 1..(Attempts - 1) :
              /\ retryCall.outcomes[k] # "ok"
              /\ Len(retryCall.waits) >= k
              /\ retryCall.waits[k] = [ms |-> BASE_DELAY_MS * 2^(k - 1),
                                       jitter |-> retryCall.outcomes[k] = "429"]
        /\ (Attempts > 0 /\ retryCall.outcomes[Attempts] = "ok")
              => retryCall.end = "return"

BoundedBackoffWitness ==
    /\ retryCall.retries = MAX_RETRIES
    /\ Attempts = MAX_RETRIES
    /\ retryCall.end = "return"
    /\ retryCall.outcomes[1] = "429"
    /\ retryCall.outcomes[2] = "error"
    /\ retryCall.waits[4].ms = 8 * BASE_DELAY_MS

====
